---- MODULE Spec2Model ----
(***************************************************************************)
(* Model of the lo-fi composition engine: LofiMidiGenerator                *)
(* (midi_generator.py) and DrumGenerator (drum_generator.py).              *)
(*                                                                         *)
(* Ticks, pitches and velocities are integers.  Python floats are kept as  *)
(* exact rationals: a style's swing and the humanization amounts are in    *)
(* hundredths, and a value drawn by random.uniform is a numerator over     *)
(* UDen.  int() truncates toward zero (Trunc).                             *)
(*                                                                         *)
(* The process-wide random source is a tape of quantised draws: every call *)
(* to random.random / randint / uniform / choice consumes one cell of the  *)
(* tape, and the tape (any function of TapeLen levels) is chosen in Init.  *)
(***************************************************************************)
EXTENDS Integers, Sequences, FiniteSets, TLC

VARIABLES
    pc,            \* "new" | "midi" | "drum" | "saved" | "drums_saved" | "ensemble"
    tape,          \* the random source: TapeLen quantised draws, read cyclically
    pos,           \* number of draws consumed so far, modulo TapeLen
    init_args,     \* the arguments the constructor was called with
    key_root,      \* LofiMidiGenerator.key_root
    mode,          \* LofiMidiGenerator.mode
    scale,         \* LofiMidiGenerator.scale
    bpm,           \* LofiMidiGenerator.bpm / DrumGenerator.bpm
    swing,         \* LofiMidiGenerator.swing, in hundredths
    style,         \* DrumGenerator.style
    swing_amount,  \* DrumGenerator.swing_amount, numerator over UDen
    prog,          \* the progression generate() chose
    mid,           \* mid.tracks: a sequence of tracks, each a sequence of messages
    evlog,         \* per track of mid: the generator's event list, before and after its sort
    call,          \* the last call of a helper method and what it returned
    gen_args,      \* the arguments of the last generate / generate_drum_track call
    prev,          \* the composition of the run before the random source was re-seeded
    engine,        \* the last LofiEngine.generate_track call: arguments, locals, outcome
    renderer,      \* the files on disk and the last AudioRenderer.render call
    video,         \* AppVideoMaker: its attributes, its threads and the rendered files
    batch          \* the batch audio tool: its button and its compor_musica threads

vars == <<pc, tape, pos, init_args, key_root, mode, scale, bpm, swing, style,
          swing_amount, prog, mid, evlog, call, gen_args, prev, engine, renderer,
          video, batch>>

-----------------------------------------------------------------------------
(* Bounds of the model *)

\* the tape of random draws has TapeLen cells
TapeLen == 4
\* largest measure count a generator is called with
MaxMeasures == 2
\* largest scale degree _get_note is called with
MaxDegree == 15
\* largest number of render calls in one behaviour
MaxRenders == 2
\* largest number of threads a window starts of one kind
MaxThreads == 2

-----------------------------------------------------------------------------
(* Arithmetic *)

\* Python int(): truncation toward zero of the rational n/d, d > 0
Trunc(n, d) == IF n >= 0 THEN n \div d ELSE -((-n) \div d)

Max(a, b) == IF a >= b THEN a ELSE b

Min(a, b) == IF a <= b THEN a ELSE b

-----------------------------------------------------------------------------
(* The random source *)

\* a draw is quantised to three levels: the lowest (0), the middle (1) and the
\* highest (2) value of the range it is drawn from
Levels == {0, 1, 2}

RandLevels == Cardinality(Levels) - 1

Tapes == [1..TapeLen -> Levels]

\* the level the draw number p (0-based) reads
Level(p) == tape[(p % TapeLen) + 1]

\* random.randint(a, b), a <= b: level 0 gives a, level RandLevels gives b
RandInt(a, b, p) == a + ((b - a) * Level(p)) \div RandLevels

\* random.random() < pct/100
RandomBelow(pct, p) == Level(p) * 100 < pct * RandLevels

\* denominator of the values random.uniform returns (bounds given in hundredths)
UDen == 100 * RandLevels

\* random.uniform(a/100, b/100) as a numerator over UDen
Uniform(a, b, p) == a * RandLevels + (b - a) * Level(p)

\* random.choice(seq)
Choice(seq, p) == seq[((Len(seq) - 1) * Level(p)) \div RandLevels + 1]

-----------------------------------------------------------------------------
(* Music theory tables *)

LofiStyle == {"chillhop", "jazzhop", "sleep", "ambient", "sad", "nostalgic",
              "oriental", "nordeste"}

ChordQuality ==
    [ MINOR7    |-> <<0, 3, 7, 10>>,
      MINOR9    |-> <<0, 3, 7, 10, 14>>,
      MAJOR7    |-> <<0, 4, 7, 11>>,
      DOMINANT7 |-> <<0, 4, 7, 10>>,
      MINOR7B5  |-> <<0, 3, 6, 10>>,
      SUS4      |-> <<0, 5, 7>> ]

SCALES ==
    [ minor            |-> <<0, 2, 3, 5, 7, 8, 10>>,
      dorian           |-> <<0, 2, 3, 5, 7, 9, 10>>,
      pentatonic_minor |-> <<0, 3, 5, 7, 10>>,
      lydian_b7        |-> <<0, 2, 4, 6, 7, 9, 10>> ]

MELANCHOLIC_PROGRESSIONS ==
    << << <<1, "MINOR9">>, <<4, "MINOR7">>, <<7, "DOMINANT7">>, <<3, "MAJOR7">> >>,
       << <<1, "MINOR7">>, <<6, "MAJOR7">>, <<2, "MINOR7B5">>, <<5, "DOMINANT7">> >>,
       << <<6, "MAJOR7">>, <<5, "DOMINANT7">>, <<1, "MINOR9">>, <<1, "MINOR7">> >>,
       << <<1, "MINOR7">>, <<4, "MINOR9">>, <<1, "MINOR7">>, <<4, "MINOR7">> >> >>

ORIENTAL_PROGRESSIONS ==
    << << <<1, "MINOR7">>, <<4, "SUS4">>, <<1, "MINOR7">>, <<7, "MINOR7">> >>,
       << <<1, "MINOR7">>, <<2, "MINOR7">>, <<1, "MINOR7">>, <<7, "MINOR7">> >> >>

NORDESTE_PROGRESSIONS ==
    << << <<1, "DOMINANT7">>, <<4, "MAJOR7">>, <<1, "DOMINANT7">>, <<5, "DOMINANT7">> >>,
       << <<1, "DOMINANT7">>, <<7, "MAJOR7">>, <<6, "MAJOR7">>, <<5, "DOMINANT7">> >> >>

-----------------------------------------------------------------------------
(* Key names.  A key name is a string, kept as its sequence of characters. *)

\* str.upper() on one character
UpperChar(c) ==
    CASE c = "a" -> "A" [] c = "b" -> "B" [] c = "c" -> "C" [] c = "d" -> "D"
      [] c = "e" -> "E" [] c = "f" -> "F" [] c = "g" -> "G" [] c = "h" -> "H"
      [] c = "m" -> "M" [] OTHER -> c

\* str.upper()
Upper(s) == [i \in 1..Len(s) |-> UpperChar(s[i])]

key_map ==
    (<<"C">> :> 0) @@ (<<"C", "#">> :> 1) @@ (<<"D", "b">> :> 1) @@ (<<"D">> :> 2) @@
    (<<"D", "#">> :> 3) @@ (<<"E", "b">> :> 3) @@ (<<"E">> :> 4) @@ (<<"F">> :> 5) @@
    (<<"F", "#">> :> 6) @@ (<<"G", "b">> :> 6) @@ (<<"G">> :> 7) @@ (<<"G", "#">> :> 8) @@
    (<<"A", "b">> :> 8) @@ (<<"A">> :> 9) @@ (<<"A", "#">> :> 10) @@ (<<"B", "b">> :> 10) @@
    (<<"B">> :> 11)

\* the default pitch class of key_map.get(..., 9)
DefaultKeyRoot == 9

\* dict.get(k, default) on key_map
KeyMapGet(k) == IF k \in DOMAIN key_map THEN key_map[k] ELSE DefaultKeyRoot

\* LofiMidiGenerator._parse_key
parse_key(key) == KeyMapGet(Upper(key))

\* _parse_key_and_mode that leaves the minor marker on the key name
parse_key_and_mode_keep(key_str) ==
    IF Len(key_str) > 0 /\ key_str[Len(key_str)] = "m"
    THEN <<key_str, "minor">>
    ELSE <<key_str, "major">>

\* LofiEngine._parse_key_and_mode
parse_key_and_mode(key_str) ==
    IF Len(key_str) > 0 /\ key_str[Len(key_str)] = "m"
    THEN <<SubSeq(key_str, 1, Len(key_str) - 1), "minor">>
    ELSE <<key_str, "major">>

-----------------------------------------------------------------------------
(* LofiMidiGenerator: construction and helpers *)

\* mid = MidiFile(ticks_per_beat=480)
TicksPerBeat == 480

\* the mode the constructor keeps: mode if mode in self.SCALES else 'minor'
ResolveModeOther(m) == IF m \in DOMAIN SCALES THEN m ELSE "dorian"

ResolveMode(m) == IF m \in DOMAIN SCALES THEN m ELSE "minor"

\* _get_note with the octave carry of degrees past the scale's end left out
get_note_nocarry(root, sc, degree, octave) ==
    root + sc[((degree - 1) % Len(sc)) + 1] + octave * 12

\* _get_note with the scale indexed by degree instead of degree - 1
get_note_shifted(root, sc, degree, octave) ==
    root + sc[(degree % Len(sc)) + 1] + (octave + (degree - 1) \div Len(sc)) * 12

\* _get_note raising the octave by one for every degree above the first
get_note_octave_per_degree(root, sc, degree, octave) ==
    root + sc[((degree - 1) % Len(sc)) + 1] + (octave + (degree - 1)) * 12

\* LofiMidiGenerator._get_note, on the fields key_root (root) and scale (sc)
get_note(root, sc, degree, octave) ==
    LET idx == (degree - 1) % Len(sc)
    IN  root + sc[idx + 1] + (octave + (degree - 1) \div Len(sc)) * 12

\* _humanize_velocity without the upper clamp
humanize_velocity_nomin(base_vel, variance, p) ==
    Max(30, base_vel + RandInt(-variance, variance, p))

\* LofiMidiGenerator._humanize_velocity (variance >= 0); reads draw p
humanize_velocity(base_vel, variance, p) ==
    Max(30, Min(110, base_vel + RandInt(-variance, variance, p)))

\* _humanize_time drawing from twice the variance
humanize_time_wide(variance, p) == RandInt(-2 * variance, 2 * variance, p)

\* LofiMidiGenerator._humanize_time; reads draw p
humanize_time(variance, p) == RandInt(-variance, variance, p)

-----------------------------------------------------------------------------
(* DrumGenerator: construction and helpers *)

SwingStyles == {"chillhop", "jazzhop"}

StraightStyles == {"sleep", "ambient"}

\* the swing amount 0.5, over UDen
Half == 50 * RandLevels

\* DrumGenerator._get_swing_amount, over UDen; draws is the number of draws it takes
get_swing_amount(st, p) ==
    IF st \in SwingStyles
    THEN [value |-> Uniform(55, 67, p), draws |-> 1]
    ELSE IF st \in StraightStyles
    THEN [value |-> Half, draws |-> 0]
    ELSE [value |-> Uniform(52, 58, p), draws |-> 1]

\* _humanize_timing with ten times the amount
humanize_timing_tenfold(base_time, amount, p) ==
    LET variation == Trunc(base_time * 10 * amount * Uniform(-100, 100, p), 100 * UDen)
    IN  Max(0, base_time + variation)

\* DrumGenerator._humanize_timing, amount in hundredths; reads draw p
humanize_timing(base_time, amount, p) ==
    LET variation == Trunc(base_time * amount * Uniform(-100, 100, p), 100 * UDen)
    IN  Max(0, base_time + variation)

\* DrumGenerator._humanize_velocity, amount in hundredths; reads draw p
drum_humanize_velocity(base_velocity, amount, p) ==
    LET variation == Trunc(base_velocity * amount * Uniform(-50, 100, p), 100 * UDen)
    IN  Max(20, Min(127, base_velocity + variation))

\* _apply_swing returning the swing amount's share of a subdivision
apply_swing_fraction(sw, position, subdivision, ticks_per_subdivision) ==
    IF position % 2 = 1
    THEN Trunc(ticks_per_subdivision * sw, UDen)
    ELSE 0

\* _apply_swing swinging the even positions instead of the odd ones
apply_swing_even(sw, position, subdivision, ticks_per_subdivision) ==
    IF position % 2 = 0 /\ sw > Half
    THEN Trunc(ticks_per_subdivision * (sw - Half) * 2, UDen)
    ELSE 0

\* DrumGenerator._apply_swing, on the field swing_amount (sw)
apply_swing(sw, position, subdivision, ticks_per_subdivision) ==
    IF position % 2 = 1 /\ sw > Half
    THEN Trunc(ticks_per_subdivision * (sw - Half) * 2, UDen)
    ELSE 0

-----------------------------------------------------------------------------
(* Initial state and the constructors *)

NoCall == [op |-> "none"]

\* no generate call yet
NoGenerate == [measures |-> 0, instruments |-> [given |-> FALSE, list |-> <<>>]]

\* no earlier run kept
NoPrev == [given |-> FALSE]

\* no generate_track call yet
NoTrack == [outcome |-> "none"]

\* the paths of the files on disk
Paths == {"a.mid", "b.mid", "a.wav"}

\* an empty disk and no render call yet
NoRender ==
    [files |-> [p \in Paths |-> "absent"], outcome |-> "none", midi_path |-> "",
     out_path |-> "", before |-> [p \in Paths |-> "absent"], started |-> FALSE,
     log |-> <<>>]

\* AppVideoMaker after __init__: no asset selected, the attribute last_video not
\* assigned (0), no thread started.  A render thread t writes the file t.
NoVideo ==
    [bg_path |-> FALSE, audio_path |-> FALSE, last_video |-> 0,
     files |-> [t \in 1..MaxThreads |-> "absent"],
     render |-> [t \in 1..MaxThreads |-> "unused"],
     concats |-> 0, running |-> 0, call |-> [op |-> "none"]]

\* the batch tool after its window is built: the button enabled, no thread started
NoBatch ==
    [button |-> "normal", worker |-> [w \in 1..MaxThreads |-> "unused"],
     left |-> [w \in 1..MaxThreads |-> 0], written |-> [w \in 1..MaxThreads |-> 0],
     call |-> [op |-> "none"]]

Init ==
    /\ pc = "new"
    /\ tape \in Tapes
    /\ pos = 0
    /\ init_args = [key |-> <<>>, mode |-> "", style |-> ""]
    /\ key_root = 0
    /\ mode = ""
    /\ scale = <<>>
    /\ bpm = 0
    /\ swing = 0
    /\ style = ""
    /\ swing_amount = 0
    /\ prog = <<>>
    /\ mid = <<>>
    /\ evlog = <<>>
    /\ call = NoCall
    /\ gen_args = NoGenerate
    /\ prev = NoPrev
    /\ engine = NoTrack
    /\ renderer = NoRender
    /\ video = NoVideo
    /\ batch = NoBatch

\* LofiMidiGenerator.__init__(key, mode)
Construct(key, m) ==
    /\ pc = "new"
    /\ init_args' = [init_args EXCEPT !.key = key, !.mode = m]
    /\ key_root' = parse_key(key)
    /\ mode' = ResolveMode(m)
    /\ scale' = SCALES[mode']
    /\ bpm' = RandInt(70, 80, pos)
    /\ swing' = 58
    /\ pos' = (pos + 1) % TapeLen
    /\ pc' = "midi"
    /\ UNCHANGED <<gen_args, prev, engine, renderer, video, batch>>
    /\ UNCHANGED <<tape, style, swing_amount, prog, mid, evlog, call>>

\* DrumGenerator.__init__(style, bpm)
ConstructDrum(st, b) ==
    /\ pc = "new"
    /\ init_args' = [init_args EXCEPT !.style = st]
    /\ style' = st
    /\ bpm' = b
    /\ swing_amount' = get_swing_amount(st, pos).value
    /\ pos' = (pos + get_swing_amount(st, pos).draws) % TapeLen
    /\ pc' = "drum"
    /\ UNCHANGED <<gen_args, prev, engine, renderer, video, batch>>
    /\ UNCHANGED <<tape, key_root, mode, scale, swing, prog, mid, evlog, call>>

-----------------------------------------------------------------------------
(* Calls of the helper methods, each recorded with what it returned *)

\* key names a caller passes: the names of the key table, lower-case spellings,
\* a name with the minor marker left on, and names that are no note
KeyInputs ==
    DOMAIN key_map \cup {<<"a">>, <<"c", "#">>, <<"e", "b">>, <<"A", "m">>, <<"H">>, <<>>}

\* key names the constructor is given
ConstructKeys == {<<"A">>, <<"C">>, <<"E", "b">>, <<"F", "#">>, <<"B">>, <<"H">>}

ModeInputs == DOMAIN SCALES \cup {"major", "phrygian"}

Octaves == 2..6

VelocityInputs == {-50, 0, 20, 30, 45, 70, 110, 127, 300}

VarianceInputs == {0, 10, 20, 200, 1000}

\* humanization amounts in hundredths: 0.0, 0.05, 0.2, 1.0, 10.0
AmountInputs == {0, 5, 20, 100, 1000}

ParseKeyCall(key) ==
    /\ pc = "midi"
    /\ call' = [op |-> "parse_key", key |-> key, result |-> parse_key(key)]
    /\ UNCHANGED <<gen_args, prev, engine, renderer, video, batch>>
    /\ UNCHANGED <<pc, tape, pos, init_args, key_root, mode, scale, bpm, swing, style,
                   swing_amount, prog, mid, evlog>>

GetNoteCall(degree, octave) ==
    /\ pc = "midi"
    /\ call' = [op |-> "get_note", degree |-> degree, octave |-> octave,
                result |-> get_note(key_root, scale, degree, octave)]
    /\ UNCHANGED <<gen_args, prev, engine, renderer, video, batch>>
    /\ UNCHANGED <<pc, tape, pos, init_args, key_root, mode, scale, bpm, swing, style,
                   swing_amount, prog, mid, evlog>>

HumanizeVelocityCall(base_vel, variance) ==
    /\ pc = "midi"
    /\ call' = [op |-> "humanize_velocity", base |-> base_vel, spread |-> variance,
                result |-> humanize_velocity(base_vel, variance, pos)]
    /\ pos' = (pos + 1) % TapeLen
    /\ UNCHANGED <<gen_args, prev, engine, renderer, video, batch>>
    /\ UNCHANGED <<pc, tape, init_args, key_root, mode, scale, bpm, swing, style,
                   swing_amount, prog, mid, evlog>>

DrumHumanizeVelocityCall(base_velocity, amount) ==
    /\ pc = "drum"
    /\ call' = [op |-> "drum_humanize_velocity", base |-> base_velocity, spread |-> amount,
                result |-> drum_humanize_velocity(base_velocity, amount, pos)]
    /\ pos' = (pos + 1) % TapeLen
    /\ UNCHANGED <<gen_args, prev, engine, renderer, video, batch>>
    /\ UNCHANGED <<pc, tape, init_args, key_root, mode, scale, bpm, swing, style,
                   swing_amount, prog, mid, evlog>>

ApplySwingCall(position) ==
    /\ pc = "drum"
    /\ call' = [op |-> "apply_swing", position |-> position,
                result |-> apply_swing(swing_amount, position, 8, TicksPerBeat \div 2)]
    /\ UNCHANGED <<gen_args, prev, engine, renderer, video, batch>>
    /\ UNCHANGED <<pc, tape, pos, init_args, key_root, mode, scale, bpm, swing, style,
                   swing_amount, prog, mid, evlog>>

\* the helper calls draw once each: the tapes that repeat one level give every outcome
InitTheory == Init /\ \A i \in 1..TapeLen : tape[i] = tape[1]

NextTheory ==
    \/ \E key \in ConstructKeys, m \in ModeInputs : Construct(key, m)
    \/ \E st \in LofiStyle : ConstructDrum(st, 85)
    \/ \E key \in KeyInputs : ParseKeyCall(key)
    \/ \E degree \in 1..MaxDegree, octave \in Octaves : GetNoteCall(degree, octave)
    \/ \E b \in VelocityInputs, v \in VarianceInputs : HumanizeVelocityCall(b, v)
    \/ \E b \in VelocityInputs, a \in AmountInputs : DrumHumanizeVelocityCall(b, a)
    \/ \E position \in 0..7 : ApplySwingCall(position)

SpecTheory == InitTheory /\ [][NextTheory]_vars

-----------------------------------------------------------------------------
(* Events, the sort of each generator, and the delta encoding *)

\* one entry of a generator's events list: (tick, type, note, velocity)
Ev(tick, type, note, vel) == [tick |-> tick, type |-> type, note |-> note, vel |-> vel]

\* Python's order on the two type strings: 'off' < 'on'
TypeRank(type) == IF type = "off" THEN 0 ELSE 1

\* an order on the events that looks at the tick alone
tick_less(a, b) == a.tick < b.tick

\* Python's order on the event tuples (tick, type, note, velocity)
tuple_less(a, b) ==
    \/ a.tick < b.tick
    \/ a.tick = b.tick /\ TypeRank(a.type) < TypeRank(b.type)
    \/ a.tick = b.tick /\ a.type = b.type /\ a.note < b.note
    \/ a.tick = b.tick /\ a.type = b.type /\ a.note = b.note /\ a.vel < b.vel

\* the strict order a sort compares the events with: the tick key of
\* sort(key=lambda x: x[0]), or the whole tuple of sort()
Less(order, a, b) == IF order = "tick" THEN tick_less(a, b) ELSE tuple_less(a, b)

\* list.sort(): the stable sort of s by the strict order Less
StableSort(s, order) ==
    LET n == Len(s)
        \* rank[i]: the place of s[i] among the sorted elements (a tuple, built once)
        rank == <<>> \o [i \in 1..n |->
                    Cardinality({j \in 1..n : \/ Less(order, s[j], s[i])
                                              \/ ~Less(order, s[i], s[j]) /\ j <= i})]
    IN  [r \in 1..n |-> s[CHOOSE i \in 1..n : rank[i] = r]]

\* the events with every 'on' renamed 'off' and every 'off' renamed 'on'
FlipType(events) ==
    [i \in 1..Len(events) |->
        [events[i] EXCEPT !.type = IF @ = "on" THEN "off" ELSE "on"]]

\* events.sort() with 'on' ordered before 'off' at one tick
sort_events_on_first(events) == FlipType(StableSort(FlipType(events), "tuple"))

\* events.sort() of the LofiMidiGenerator tracks
sort_events(events) == StableSort(events, "tuple")

\* all_events.sort(key=lambda x: x[0]) of the drum track
sort_by_tick(events) == StableSort(events, "tick")

\* the delta of the i-th sorted event written as its absolute tick
delta_absolute(sorted, i) == sorted[i].tick

\* delta = tick - last_tick, last_tick the tick of the event before (0 at the start)
delta_time(sorted, i) == sorted[i].tick - (IF i = 1 THEN 0 ELSE sorted[i - 1].tick)

\* the loop that turns the sorted events into note_on / note_off messages
Encode(sorted, channel) ==
    [i \in 1..Len(sorted) |->
        [type |-> IF sorted[i].type = "on" THEN "note_on" ELSE "note_off",
         note |-> sorted[i].note, velocity |-> sorted[i].vel,
         time |-> delta_time(sorted, i), channel |-> channel]]

ProgramChange(program, channel) ==
    [type |-> "program_change", program |-> program, time |-> 0, channel |-> channel]

\* a finished track: its messages, and the events list before and after the sort
Track(role, header, raw, sorted, channel) ==
    [role |-> role, msgs |-> <<header>> \o Encode(sorted, channel),
     raw |-> raw, sorted |-> sorted]

\* a loop body appends its k-th 'on' event and then its k-th 'off' event: the
\* j-th appended event is the 'on' of PairOf(j) when IsOn(j), else the 'off' of it
IsOn(j) == j % 2 = 1

PairOf(j) == (j + 1) \div 2

\* int(m * ticks_per_measure + b * ticks_per_beat), b given in half beats
BeatTick(m, halves) == m * (TicksPerBeat * 4) + Trunc(halves * TicksPerBeat, 2)

\* the progression read without cycling: every measure past its end repeats the last pair
ProgAt_last(pr, m) == pr[Min(m, Len(pr) - 1) + 1]

\* the (degree, quality) pair of measure m: prog[m % len(prog)]
ProgAt(pr, m) == pr[(m % Len(pr)) + 1]

-----------------------------------------------------------------------------
(* LofiMidiGenerator: the track generators.  Each loop returns its events  *)
(* and the number p of draws consumed when it ends.                        *)

\* the chord's note-off tick taken from the measure start
harmony_off_early(start_tick, ticks_per_measure) == start_tick - 60

\* the chord's note-off tick put on the measure end itself
harmony_off_at_end(start_tick, ticks_per_measure) == start_tick + ticks_per_measure

\* h_off = start_tick + ticks_per_measure - 60
harmony_off(start_tick, ticks_per_measure) == start_tick + ticks_per_measure - 60

RECURSIVE harmony_events(_, _, _, _)
harmony_events(pr, measures, m, p) ==
    IF m >= measures THEN [ev |-> <<>>, pos |-> p]
    ELSE
        LET ticks_per_measure == TicksPerBeat * 4
            degree == ProgAt(pr, m)[1]
            quality == ChordQuality[ProgAt(pr, m)[2]]
            root == get_note(key_root, scale, degree, 3)
            chord == [i \in 1..Len(quality) |-> root + quality[i]]
            start_tick == m * ticks_per_measure
            OnEv(k) == Ev(Max(0, start_tick + humanize_time(40, p + 2 * (k - 1))), "on",
                          chord[k], humanize_velocity(45, 10, p + 2 * (k - 1) + 1))
            OffEv(k) == Ev(harmony_off(start_tick, ticks_per_measure), "off", chord[k], 0)
            rest == harmony_events(pr, measures, m + 1, p + 2 * Len(chord))
        IN  [ev |-> [j \in 1..(2 * Len(chord)) |->
                        IF IsOn(j) THEN OnEv(PairOf(j)) ELSE OffEv(PairOf(j))]
                    \o rest.ev, pos |-> rest.pos]

\* generate_harmony_track that plays one measure when asked for none
generate_harmony_track_one(pr, measures, p) ==
    LET g == harmony_events(pr, Max(1, measures), 0, p)
    IN  [track |-> Track("piano", ProgramChange(0, 0), g.ev, sort_events(g.ev), 0),
         pos |-> g.pos]

\* LofiMidiGenerator.generate_harmony_track
generate_harmony_track(pr, measures, p) ==
    LET g == harmony_events(pr, measures, 0, p)
    IN  [track |-> Track("piano", ProgramChange(0, 0), g.ev, sort_events(g.ev), 0),
         pos |-> g.pos]

\* the bass note-off put a whole beat after the start tick
bass_off_full_beat(start_tick) == start_tick + TicksPerBeat

\* h_off = start_tick + int(ticks_per_beat * 0.8)
bass_off(start_tick) == start_tick + Trunc(TicksPerBeat * 8, 10)

RECURSIVE bass_events(_, _, _, _)
bass_events(pr, measures, m, p) ==
    IF m >= measures THEN [ev |-> <<>>, pos |-> p]
    ELSE
        LET degree == ProgAt(pr, m)[1]
            root == get_note(key_root, scale, degree, 2)
            beats == <<0, 3>>
            start_tick(k) == BeatTick(m, beats[k])
            OnEv(k) == Ev(Max(0, start_tick(k) + humanize_time(20, p + 2 * (k - 1))), "on",
                          root, humanize_velocity(70, 10, p + 2 * (k - 1) + 1))
            OffEv(k) == Ev(bass_off(start_tick(k)), "off", root, 0)
            rest == bass_events(pr, measures, m + 1, p + 4)
        IN  [ev |-> [j \in 1..(2 * 2) |->
                        IF IsOn(j) THEN OnEv(PairOf(j)) ELSE OffEv(PairOf(j))]
                    \o rest.ev, pos |-> rest.pos]

\* LofiMidiGenerator.generate_bass_track
generate_bass_track(pr, measures, p) ==
    LET g == bass_events(pr, measures, 0, p)
    IN  [track |-> Track("bass", ProgramChange(32, 1), g.ev, sort_events(g.ev), 1),
         pos |-> g.pos]

RECURSIVE pad_events(_, _, _)
pad_events(pr, measures, m) ==
    IF m >= measures THEN <<>>
    ELSE
        LET ticks_per_measure == TicksPerBeat * 4
            degree == ProgAt(pr, m)[1]
            quality == ChordQuality[ProgAt(pr, m)[2]]
            root == get_note(key_root, scale, degree, 4)
            chord == <<root, root + quality[2],
                       root + (IF Len(quality) > 2 THEN quality[3] ELSE 7)>>
            start_tick == m * ticks_per_measure
            OnEv(k) == Ev(start_tick, "on", chord[k], 35)
            OffEv(k) == Ev(start_tick + ticks_per_measure, "off", chord[k], 0)
        IN  [j \in 1..(2 * 3) |->
                IF IsOn(j) THEN OnEv(PairOf(j)) ELSE OffEv(PairOf(j))]
            \o pad_events(pr, measures, m + 1)

\* LofiMidiGenerator.generate_pad_track
generate_pad_track(pr, measures, p) ==
    LET ev == pad_events(pr, measures, 0)
    IN  [track |-> Track("pad", ProgramChange(89, 2), ev, sort_events(ev), 2), pos |-> p]

RECURSIVE koto_beats(_, _, _, _)
koto_beats(degree, m, beats, p) ==
    IF beats = <<>> THEN [ev |-> <<>>, pos |-> p]
    ELSE IF RandomBelow(70, p)
    THEN LET note == get_note(key_root, scale, degree + RandInt(0, 4, p + 1), 5)
             start_tick == BeatTick(m, Head(beats))
             rest == koto_beats(degree, m, Tail(beats), p + 2)
         IN  [ev |-> <<Ev(start_tick, "on", note, 60), Ev(start_tick + 120, "off", note, 0)>>
                     \o rest.ev,
              pos |-> rest.pos]
    ELSE koto_beats(degree, m, Tail(beats), p + 1)

RECURSIVE koto_events(_, _, _, _)
koto_events(pr, measures, m, p) ==
    IF m >= measures THEN [ev |-> <<>>, pos |-> p]
    ELSE
        LET here == koto_beats(ProgAt(pr, m)[1], m, <<0, 1, 4, 5>>, p)
            rest == koto_events(pr, measures, m + 1, here.pos)
        IN  [ev |-> here.ev \o rest.ev, pos |-> rest.pos]

\* LofiMidiGenerator.generate_koto_track
generate_koto_track(pr, measures, p) ==
    LET g == koto_events(pr, measures, 0, p)
    IN  [track |-> Track("koto", ProgramChange(107, 7), g.ev, sort_events(g.ev), 7),
         pos |-> g.pos]

RECURSIVE accordion_beats(_, _, _, _)
accordion_beats(degree, m, beats, p) ==
    IF beats = <<>> THEN <<>>
    ELSE IF RandomBelow(60, p)
    THEN LET root == get_note(key_root, scale, degree, 5)
             notes == <<root, root + 4>>
             start_tick == BeatTick(m, Head(beats))
             OnEv(k) == Ev(start_tick, "on", notes[k], 55)
             OffEv(k) == Ev(start_tick + Trunc(TicksPerBeat * 4, 10), "off", notes[k], 0)
         IN  [j \in 1..(2 * 2) |->
                 IF IsOn(j) THEN OnEv(PairOf(j)) ELSE OffEv(PairOf(j))]
             \o accordion_beats(degree, m, Tail(beats), p + 1)
    ELSE accordion_beats(degree, m, Tail(beats), p + 1)

RECURSIVE accordion_events(_, _, _, _)
accordion_events(pr, measures, m, p) ==
    IF m >= measures THEN [ev |-> <<>>, pos |-> p]
    ELSE
        LET here == accordion_beats(ProgAt(pr, m)[1], m, <<1, 2, 5, 6>>, p)
            rest == accordion_events(pr, measures, m + 1, p + 4)
        IN  [ev |-> here \o rest.ev, pos |-> rest.pos]

\* LofiMidiGenerator.generate_accordion_track
generate_accordion_track(pr, measures, p) ==
    LET g == accordion_events(pr, measures, 0, p)
    IN  [track |-> Track("accordion", ProgramChange(21, 8), g.ev, sort_events(g.ev), 8),
         pos |-> g.pos]

RECURSIVE shakuhachi_events(_, _, _, _)
shakuhachi_events(pr, measures, m, p) ==
    IF m >= measures THEN [ev |-> <<>>, pos |-> p]
    ELSE
        LET ticks_per_measure == TicksPerBeat * 4
            note == get_note(key_root, scale, ProgAt(pr, m)[1], 6)
            start_tick == m * ticks_per_measure + TicksPerBeat * 2
            here == IF RandomBelow(50, p)
                    THEN <<Ev(start_tick, "on", note, 45),
                           Ev(start_tick + ticks_per_measure \div 2, "off", note, 0)>>
                    ELSE <<>>
            rest == shakuhachi_events(pr, measures, m + 2, p + 1)
        IN  [ev |-> here \o rest.ev, pos |-> rest.pos]

\* LofiMidiGenerator.generate_shakuhachi_track
generate_shakuhachi_track(pr, measures, p) ==
    LET g == shakuhachi_events(pr, measures, 0, p)
    IN  [track |-> Track("shakuhachi", ProgramChange(77, 9), g.ev, sort_events(g.ev), 9),
         pos |-> g.pos]

RECURSIVE melody_beats(_, _, _, _)
melody_beats(chord_notes, m, beats, p) ==
    IF beats = <<>> THEN [ev |-> <<>>, pos |-> p]
    ELSE IF RandomBelow(60, p)
    THEN LET note == Choice(chord_notes, p + 1) + 12
             start_tick == BeatTick(m, Head(beats))
             rest == melody_beats(chord_notes, m, Tail(beats), p + 2)
         IN  [ev |-> <<Ev(Max(0, start_tick), "on", note, 75),
                       Ev(start_tick + Trunc(TicksPerBeat * 12, 10), "off", note, 0)>>
                     \o rest.ev,
              pos |-> rest.pos]
    ELSE melody_beats(chord_notes, m, Tail(beats), p + 1)

RECURSIVE melody_events(_, _, _, _)
melody_events(pr, measures, m, p) ==
    IF m >= measures THEN [ev |-> <<>>, pos |-> p]
    ELSE
        LET quality == ChordQuality[ProgAt(pr, m)[2]]
            base == get_note(key_root, scale, ProgAt(pr, m)[1], 4)
            chord_notes == [i \in 1..Len(quality) |-> base + quality[i]]
            here == melody_beats(chord_notes, m, <<1, 4, 7>>, p)
            rest == melody_events(pr, measures, m + 1, here.pos)
        IN  [ev |-> here.ev \o rest.ev, pos |-> rest.pos]

\* the melody branch of generate_full_ensemble
generate_melody_track(pr, measures, p) ==
    LET g == melody_events(pr, measures, 0, p)
    IN  [track |-> Track("melody", ProgramChange(1, 6), g.ev, sort_events(g.ev), 6),
         pos |-> g.pos]

-----------------------------------------------------------------------------
(* LofiMidiGenerator.generate *)

\* instruments: None, or a list of role names
NoInstruments == [given |-> FALSE, list |-> <<>>]

Instruments(list) == [given |-> TRUE, list |-> list]

\* role in instruments
Has(list, role) == \E i \in 1..Len(list) : list[i] = role

\* the roles in the order generate_full_ensemble tests them
EnsembleOrder == <<"piano", "bass", "pad", "koto", "accordion", "shakuhachi", "melody">>

\* the track generator of a role
generate_role(role, pr, measures, p) ==
    CASE role = "piano" -> generate_harmony_track(pr, measures, p)
      [] role = "bass" -> generate_bass_track(pr, measures, p)
      [] role = "pad" -> generate_pad_track(pr, measures, p)
      [] role = "koto" -> generate_koto_track(pr, measures, p)
      [] role = "accordion" -> generate_accordion_track(pr, measures, p)
      [] role = "shakuhachi" -> generate_shakuhachi_track(pr, measures, p)
      [] role = "melody" -> generate_melody_track(pr, measures, p)

\* mid.tracks.append(track): acc is the tracks appended and the draws consumed so far
AppendTrack(acc, g) == [tracks |-> Append(acc.tracks, g.track), pos |-> g.pos]

\* the "if role in instruments: mid.tracks.append(...)" steps for the given roles
RECURSIVE append_tracks(_, _, _, _, _)
append_tracks(roles, list, pr, measures, acc) ==
    IF roles = <<>> THEN acc
    ELSE append_tracks(Tail(roles), list, pr, measures,
             IF Has(list, Head(roles))
             THEN AppendTrack(acc, generate_role(Head(roles), pr, measures, acc.pos))
             ELSE acc)

\* generate_full_ensemble without the default list: None is taken as no instrument
generate_full_ensemble_no_default(pr, measures, instruments, p) ==
    append_tracks(EnsembleOrder, instruments.list, pr, measures, [tracks |-> <<>>, pos |-> p])

\* LofiMidiGenerator.generate_full_ensemble
generate_full_ensemble(pr, measures, instruments, p) ==
    LET list == IF instruments.given THEN instruments.list
                ELSE <<"piano", "bass", "pad", "melody">>
    IN  append_tracks(EnsembleOrder, list, pr, measures, [tracks |-> <<>>, pos |-> p])

\* the catalog group of the 'lydian_b7' and 'pentatonic_minor' modes exchanged
progressions_swapped(m) ==
    IF m = "pentatonic_minor" THEN NORDESTE_PROGRESSIONS
    ELSE IF m = "lydian_b7" THEN ORIENTAL_PROGRESSIONS
    ELSE MELANCHOLIC_PROGRESSIONS

\* the catalog group generate() chooses from, by self.mode
progressions_for(m) ==
    IF m = "pentatonic_minor" THEN ORIENTAL_PROGRESSIONS
    ELSE IF m = "lydian_b7" THEN NORDESTE_PROGRESSIONS
    ELSE MELANCHOLIC_PROGRESSIONS

\* mido.bpm2tempo: microseconds per beat, rounded
bpm2tempo(b) == (2 * 60000000 + b) \div (2 * b)

\* the 'LoFi Master Clock' track
MetaTrack ==
    [role |-> "meta",
     msgs |-> <<[type |-> "set_tempo", tempo |-> bpm2tempo(bpm), time |-> 0],
                [type |-> "track_name", name |-> "LoFi Master Clock", time |-> 0]>>,
     raw |-> <<>>, sorted |-> <<>>]

\* the message lists of the tracks: mid.tracks
Messages(tracks) == [i \in 1..Len(tracks) |-> tracks[i].msgs]

\* per track, the role and the events list before and after its sort
EventLog(tracks) ==
    [i \in 1..Len(tracks) |->
        [role |-> tracks[i].role, raw |-> tracks[i].raw, sorted |-> tracks[i].sorted]]

\* LofiMidiGenerator.generate(output_path, measures, instruments)
Generate(measures, instruments) ==
    /\ pc = "midi"
    /\ LET pr == Choice(progressions_for(mode), pos)
           ens == generate_full_ensemble(pr, measures, instruments, pos + 1)
           tracks == <<MetaTrack>> \o ens.tracks
       IN  /\ prog' = pr
           /\ mid' = Messages(tracks)
           /\ evlog' = EventLog(tracks)
           /\ pos' = ens.pos % TapeLen
    /\ gen_args' = [measures |-> measures, instruments |-> instruments]
    /\ pc' = "saved"
    /\ UNCHANGED <<prev, engine, renderer, video, batch>>
    /\ UNCHANGED <<tape, init_args, key_root, mode, scale, bpm, swing, style,
                   swing_amount, call>>

-----------------------------------------------------------------------------
(* DrumGenerator: the patterns of one measure and the drum track.  A       *)
(* pattern is its list of hits and the number n of draws it consumed.      *)

KICK == 36

SNARE == 38

RIMSHOT == 37

CLOSED_HH == 42

OPEN_HH == 46

SadStyles == {"sad", "nostalgic"}

\* _humanize_velocity(base_velocity) with the default amount 0.2
Vel(base_velocity, p) == drum_humanize_velocity(base_velocity, 20, p)

\* DrumGenerator._generate_kick_pattern: hits are (time, velocity)
generate_kick_pattern(ticks_per_beat, p) ==
    IF style \in StraightStyles
    THEN [pat |-> <<<<0, Vel(50, p)>>, <<ticks_per_beat * 2, Vel(45, p + 1)>>>>, n |-> 2]
    ELSE IF style \in SadStyles
    THEN LET two == <<<<0, Vel(65, p)>>, <<ticks_per_beat * 2, Vel(60, p + 1)>>>>
         IN  IF RandomBelow(40, p + 2)
             THEN [pat |-> Append(two, <<ticks_per_beat * 3 + ticks_per_beat \div 2,
                                         Vel(55, p + 3)>>),
                   n |-> 4]
             ELSE [pat |-> two, n |-> 3]
    ELSE LET offset == RandInt((-ticks_per_beat) \div 8, ticks_per_beat \div 8, p + 1)
             three == <<<<0, Vel(75, p)>>,
                        <<ticks_per_beat + offset, Vel(65, p + 2)>>,
                        <<ticks_per_beat * 2, Vel(70, p + 3)>>>>
             offset2 == RandInt((-ticks_per_beat) \div 6, ticks_per_beat \div 6, p + 5)
         IN  IF RandomBelow(60, p + 4)
             THEN [pat |-> Append(three,
                                  <<ticks_per_beat * 3 + ticks_per_beat \div 2 + offset2,
                                    Vel(60, p + 6)>>),
                   n |-> 7]
             ELSE [pat |-> three, n |-> 5]

\* DrumGenerator._generate_snare_pattern: hits are (time, note, velocity)
generate_snare_pattern(ticks_per_beat, p) ==
    IF style \in StraightStyles
    THEN IF RandomBelow(50, p)
         THEN [pat |-> <<<<ticks_per_beat * 2, RIMSHOT, Vel(35, p + 1)>>>>, n |-> 2]
         ELSE [pat |-> <<>>, n |-> 1]
    ELSE IF style \in SadStyles
    THEN [pat |-> <<<<ticks_per_beat, RIMSHOT, Vel(55, p)>>,
                    <<ticks_per_beat * 3, RIMSHOT, Vel(50, p + 1)>>>>,
          n |-> 2]
    ELSE LET drum == IF RandomBelow(60, p) THEN RIMSHOT ELSE SNARE
             two == <<<<ticks_per_beat, drum, Vel(70, p + 1)>>,
                      <<ticks_per_beat * 3, drum, Vel(75, p + 2)>>>>
         IN  IF RandomBelow(40, p + 3)
             THEN [pat |-> Append(two, <<ticks_per_beat \div 2, drum, Vel(35, p + 4)>>),
                   n |-> 5]
             ELSE [pat |-> two, n |-> 4]

\* DrumGenerator._generate_hihat_pattern: hits are (time, note, velocity)
generate_hihat_pattern(ticks_per_beat, p) ==
    IF style \in StraightStyles
    THEN IF RandomBelow(30, p)
         THEN [pat |-> [beat \in 1..4 |->
                           <<ticks_per_beat * (beat - 1), CLOSED_HH, Vel(30, p + beat)>>],
               n |-> 5]
         ELSE [pat |-> <<>>, n |-> 1]
    ELSE LET ticks_per_subdivision == ticks_per_beat \div 2
             base_velocity == IF style \in SadStyles THEN 50 ELSE 60
             Hit(i) ==
                 LET swung == i * ticks_per_subdivision
                              + apply_swing(swing_amount, i, 8, ticks_per_subdivision)
                     time == humanize_timing(swung, 5, p + 3 * i)
                     velocity == IF i % 4 = 0 THEN Vel(base_velocity + 15, p + 3 * i + 1)
                                 ELSE IF i % 2 = 0 THEN Vel(base_velocity + 8, p + 3 * i + 1)
                                 ELSE Vel(base_velocity - 5, p + 3 * i + 1)
                 IN  IF RandomBelow(10, p + 3 * i + 2) /\ i % 2 = 1
                     THEN <<time, OPEN_HH, velocity>>
                     ELSE <<time, CLOSED_HH, velocity>>
         IN  [pat |-> [k \in 1..8 |-> Hit(k - 1)], n |-> 24]

RECURSIVE drum_events(_, _, _)
drum_events(measures, measure, p) ==
    IF measure >= measures THEN [ev |-> <<>>, pos |-> p]
    ELSE
        LET measure_offset == measure * (TicksPerBeat * 4)
            kick == generate_kick_pattern(TicksPerBeat, p)
            snare == generate_snare_pattern(TicksPerBeat, p + kick.n)
            hihat == generate_hihat_pattern(TicksPerBeat, p + kick.n + snare.n)
            KickOn(k) == Ev(measure_offset + kick.pat[k][1], "on", KICK, kick.pat[k][2])
            KickOff(k) == Ev(measure_offset + kick.pat[k][1] + 100, "off", KICK, 0)
            SnareOn(k) == Ev(measure_offset + snare.pat[k][1], "on", snare.pat[k][2],
                             snare.pat[k][3])
            SnareOff(k) == Ev(measure_offset + snare.pat[k][1] + 150, "off",
                              snare.pat[k][2], 0)
            HihatOn(k) == Ev(measure_offset + hihat.pat[k][1], "on", hihat.pat[k][2],
                             hihat.pat[k][3])
            HihatOff(k) == Ev(measure_offset + hihat.pat[k][1] + 80, "off",
                              hihat.pat[k][2], 0)
            rest == drum_events(measures, measure + 1, p + kick.n + snare.n + hihat.n)
        IN  [ev |-> [j \in 1..(2 * Len(kick.pat)) |->
                        IF IsOn(j) THEN KickOn(PairOf(j)) ELSE KickOff(PairOf(j))]
                    \o [j \in 1..(2 * Len(snare.pat)) |->
                           IF IsOn(j) THEN SnareOn(PairOf(j)) ELSE SnareOff(PairOf(j))]
                    \o [j \in 1..(2 * Len(hihat.pat)) |->
                           IF IsOn(j) THEN HihatOn(PairOf(j)) ELSE HihatOff(PairOf(j))]
                    \o rest.ev,
             pos |-> rest.pos]

\* channel=9 of the drum messages: channel 10 of General MIDI, the percussion channel
DrumChannel == 9

\* DrumGenerator.generate_drum_track
generate_drum_track(measures, p) ==
    LET g == drum_events(measures, 0, p)
    IN  [track |-> Track("drums", [type |-> "track_name", name |-> "Drums", time |-> 0],
                         g.ev, sort_by_tick(g.ev), DrumChannel),
         pos |-> g.pos]

\* drum_track = drum_gen.generate_drum_track(mid, measures); mid.tracks.append(drum_track)
GenerateDrumTrack(measures) ==
    /\ pc = "drum"
    /\ LET g == generate_drum_track(measures, pos)
       IN  /\ mid' = Messages(<<g.track>>)
           /\ evlog' = EventLog(<<g.track>>)
           /\ pos' = g.pos % TapeLen
    /\ gen_args' = [measures |-> measures, instruments |-> NoInstruments]
    /\ pc' = "drums_saved"
    /\ UNCHANGED <<prev, engine, renderer, video, batch>>
    /\ UNCHANGED <<tape, init_args, key_root, mode, scale, bpm, swing, style,
                   swing_amount, prog, call>>

-----------------------------------------------------------------------------
(* The composition runs *)

\* keys and modes the generator is constructed with for a composition
TrackKeys == {<<"C">>, <<"B">>}

TrackModes == DOMAIN SCALES

\* the instruments lists generate() is called with
InstrumentInputs ==
    {NoInstruments,
     Instruments(<<"koto", "accordion", "shakuhachi">>),
     Instruments(<<"piano", "melody">>),
     Instruments(<<"bass", "pad", "shakuhachi">>)}

Next ==
    \/ \E key \in TrackKeys, m \in TrackModes : Construct(key, m)
    \/ \E st \in LofiStyle : ConstructDrum(st, 85)
    \/ \E measures \in (-1)..MaxMeasures, ins \in InstrumentInputs :
           Generate(measures, ins)
    \/ \E measures \in (-1)..MaxMeasures : GenerateDrumTrack(measures)

Spec == Init /\ [][Next]_vars

-----------------------------------------------------------------------------
(* Pieces longer than a progression *)

\* largest measure count of a piece that cycles its progression
LongMeasures == 5

\* the modes and the instruments lists of the long pieces
LongModes == {"minor", "pentatonic_minor"}

LongInstruments == {Instruments(<<"piano">>)}

NextLong ==
    \/ \E m \in LongModes : Construct(<<"C">>, m)
    \/ \E measures \in 0..LongMeasures, ins \in LongInstruments : Generate(measures, ins)

SpecLong == Init /\ [][NextLong]_vars

-----------------------------------------------------------------------------
(* Pieces for every instruments list *)

\* the role names generate_full_ensemble knows
Roles == {EnsembleOrder[k] : k \in 1..Len(EnsembleOrder)}

\* the roles of S as a list, in the order of 'order'
RECURSIVE RolesIn(_, _)
RolesIn(order, S) ==
    IF order = <<>> THEN <<>>
    ELSE (IF Head(order) \in S THEN <<Head(order)>> ELSE <<>>) \o RolesIn(Tail(order), S)

\* the instruments lists generate() is called with: None, every set of roles, a list
\* out of order that names a role twice, and a list with a name that is no role
EnsembleInstruments ==
    {Instruments(RolesIn(EnsembleOrder, S)) : S \in SUBSET Roles}
        \cup {NoInstruments,
              Instruments(<<"melody", "piano", "piano">>),
              Instruments(<<"drums", "koto">>)}

NextEnsemble ==
    \/ Construct(<<"C">>, "minor")
    \/ \E measures \in 0..1, ins \in EnsembleInstruments : Generate(measures, ins)

SpecEnsemble == Init /\ [][NextEnsemble]_vars

-----------------------------------------------------------------------------
(* generate_full_ensemble called with a progression of the caller's choice *)

\* every progression of the three catalog groups
Catalog ==
    {MELANCHOLIC_PROGRESSIONS[k] : k \in 1..Len(MELANCHOLIC_PROGRESSIONS)}
        \cup {ORIENTAL_PROGRESSIONS[k] : k \in 1..Len(ORIENTAL_PROGRESSIONS)}
        \cup {NORDESTE_PROGRESSIONS[k] : k \in 1..Len(NORDESTE_PROGRESSIONS)}

\* one key name for each of the twelve pitch classes
ChromaticKeys ==
    {<<"C">>, <<"C", "#">>, <<"D">>, <<"D", "#">>, <<"E">>, <<"F">>, <<"F", "#">>,
     <<"G">>, <<"G", "#">>, <<"A">>, <<"A", "#">>, <<"B">>}

\* generate_full_ensemble(mid, prog, measures, instruments) on a new MidiFile
EnsembleCall(pr, measures, instruments) ==
    /\ pc = "midi"
    /\ LET ens == generate_full_ensemble(pr, measures, instruments, pos)
       IN  /\ prog' = pr
           /\ mid' = Messages(ens.tracks)
           /\ evlog' = EventLog(ens.tracks)
           /\ pos' = ens.pos % TapeLen
    /\ gen_args' = [measures |-> measures, instruments |-> instruments]
    /\ pc' = "ensemble"
    /\ UNCHANGED <<prev, engine, renderer, video, batch>>
    /\ UNCHANGED <<tape, init_args, key_root, mode, scale, bpm, swing, style,
                   swing_amount, call>>

NextCatalog ==
    \/ \E key \in ChromaticKeys, m \in DOMAIN SCALES : Construct(key, m)
    \/ \E pr \in Catalog :
           EnsembleCall(pr, Len(pr), Instruments(EnsembleOrder))

\* the random sources of these calls: the tapes that repeat their first two draws,
\* so that a generator's chance draw and the value draw after it vary independently
InitCatalog == Init /\ \A i \in 3..TapeLen : tape[i] = tape[i - 2]

SpecCatalog == InitCatalog /\ [][NextCatalog]_vars

-----------------------------------------------------------------------------
(* A second run on the same random source *)

\* the random source seeded again, but left one draw further than the first seed
ReseedShifted ==
    /\ pc = "saved"
    /\ ~prev.given
    /\ prev' = [given |-> TRUE, key |-> init_args.key, mode |-> init_args.mode,
                measures |-> gen_args.measures, instruments |-> gen_args.instruments,
                bpm |-> bpm, mid |-> mid]
    /\ pos' = 1
    /\ pc' = "new"
    /\ UNCHANGED <<tape, init_args, key_root, mode, scale, bpm, swing, style,
                   swing_amount, prog, mid, evlog, call, gen_args, engine, renderer, video, batch>>

\* the process-wide random source (the module 'random') put back to the state it was
\* seeded with, the composition of the finished run kept for comparison; the next
\* run builds a new generator
Reseed ==
    /\ pc = "saved"
    /\ ~prev.given
    /\ prev' = [given |-> TRUE, key |-> init_args.key, mode |-> init_args.mode,
                measures |-> gen_args.measures, instruments |-> gen_args.instruments,
                bpm |-> bpm, mid |-> mid]
    /\ pos' = 0
    /\ pc' = "new"
    /\ UNCHANGED <<tape, init_args, key_root, mode, scale, bpm, swing, style,
                   swing_amount, prog, mid, evlog, call, gen_args, engine, renderer, video, batch>>

\* the parameters of the two runs
ReplayModes == {"minor", "lydian_b7"}

ReplayInstruments == {NoInstruments, Instruments(<<"koto", "accordion", "shakuhachi">>)}

NextReplay ==
    \/ \E m \in ReplayModes : Construct(<<"C">>, m)
    \/ \E measures \in 1..MaxMeasures, ins \in ReplayInstruments : Generate(measures, ins)
    \/ Reseed

SpecReplay == Init /\ [][NextReplay]_vars

-----------------------------------------------------------------------------
(* LofiEngine.generate_track *)

\* an optional argument: left at None, or given
None == [given |-> FALSE]

Some(v) == [given |-> TRUE, value |-> v]

\* LofiEngine.STYLE_PRESETS: the fields generate_track reads
STYLE_PRESETS ==
    [ chillhop  |-> [bpm_range |-> <<75, 90>>,
                     key_preferences |-> <<<<"C">>, <<"F">>, <<"G">>, <<"D">>>>,
                     measures |-> 16, has_drums |-> TRUE],
      jazzhop   |-> [bpm_range |-> <<80, 95>>,
                     key_preferences |-> <<<<"E", "b">>, <<"B", "b">>, <<"F">>, <<"A", "b">>>>,
                     measures |-> 16, has_drums |-> TRUE],
      sleep     |-> [bpm_range |-> <<60, 70>>,
                     key_preferences |-> <<<<"A">>, <<"E">>, <<"D">>, <<"G">>>>,
                     measures |-> 24, has_drums |-> FALSE],
      ambient   |-> [bpm_range |-> <<60, 70>>,
                     key_preferences |-> <<<<"A">>, <<"E">>, <<"D">>>>,
                     measures |-> 24, has_drums |-> FALSE],
      sad       |-> [bpm_range |-> <<70, 80>>,
                     key_preferences |-> <<<<"A", "m">>, <<"D", "m">>, <<"E", "m">>,
                                           <<"B", "m">>>>,
                     measures |-> 16, has_drums |-> TRUE],
      nostalgic |-> [bpm_range |-> <<70, 80>>,
                     key_preferences |-> <<<<"C">>, <<"G">>, <<"D">>, <<"A">>>>,
                     measures |-> 16, has_drums |-> TRUE] ]

\* the parameters LofiMidiGenerator.__init__(self, key, mode) accepts
ConstructorParams == {"key", "mode"}

\* the keywords of the call LofiMidiGenerator(style=style, key=key, mode=mode)
GeneratorCallKeywords == {"style", "key", "mode"}

\* the tempo track generate_track builds before it constructs the generator
TempoTrack(b) ==
    <<[type |-> "track_name", name |-> "Tempo", time |-> 0],
      [type |-> "set_tempo", tempo |-> bpm2tempo(b), time |-> 0],
      [type |-> "time_signature", numerator |-> 4, denominator |-> 4, time |-> 0]>>

\* how a generate_track call on style st ends: self.STYLE_PRESETS[style] raises
\* KeyError for a style without a preset, and the constructor call raises TypeError
\* for a keyword it has no parameter for; lines 175-201 run only past both
track_outcome(st) ==
    IF st \notin DOMAIN STYLE_PRESETS THEN "KeyError"
    ELSE IF ~(GeneratorCallKeywords \subseteq ConstructorParams) THEN "TypeError"
    ELSE "returned"

\* LofiEngine.generate_track(style, key, bpm, measures, include_drums)
GenerateTrack(st, key, b, measures, include_drums) ==
    /\ pc = "new"
    /\ engine.outcome = "none"
    /\ LET args == [style |-> st, key |-> key, bpm |-> b, measures |-> measures,
                    include_drums |-> include_drums]
       IN  IF st \notin DOMAIN STYLE_PRESETS
           THEN /\ engine' = [outcome |-> track_outcome(st), args |-> args,
                              resolved |-> FALSE, tracks |-> <<>>, saved |-> FALSE]
                /\ pos' = pos
           ELSE LET preset == STYLE_PRESETS[st]
                    key_str == IF key.given THEN key.value
                               ELSE Choice(preset.key_preferences, pos)
                    p1 == IF key.given THEN pos ELSE pos + 1
                    split == parse_key_and_mode(key_str)
                    bpm_used == IF b.given THEN b.value
                                ELSE RandInt(preset.bpm_range[1], preset.bpm_range[2], p1)
                    p2 == IF b.given THEN p1 ELSE p1 + 1
                IN  /\ engine' =
                           [outcome |-> track_outcome(st), args |-> args,
                            resolved |-> TRUE, key |-> split[1], mode |-> split[2],
                            bpm |-> bpm_used,
                            measures |-> IF measures.given THEN measures.value
                                         ELSE preset.measures,
                            include_drums |-> IF include_drums.given
                                              THEN include_drums.value
                                              ELSE preset.has_drums,
                            tracks |-> <<TempoTrack(bpm_used)>>,
                            saved |-> track_outcome(st) = "returned"]
                    /\ pos' = p2 % TapeLen
    /\ UNCHANGED <<pc, tape, init_args, key_root, mode, scale, bpm, swing, style,
                   swing_amount, prog, mid, evlog, call, gen_args, prev, renderer, video, batch>>

\* the arguments generate_track is called with
EngineKeys == {None, Some(<<"A">>), Some(<<"A", "m">>), Some(<<"E", "b">>)}

EngineBpms == {None, Some(65)}

EngineMeasures == {None, Some(4), Some(-1)}

EngineDrums == {None, Some(TRUE), Some(FALSE)}

\* generate_track draws at most twice: the tapes that differ in their first two cells
InitEngine == Init /\ \A i \in 3..TapeLen : tape[i] = tape[1]

NextEngine ==
    \E st \in LofiStyle, key \in EngineKeys, b \in EngineBpms,
       measures \in EngineMeasures, include_drums \in EngineDrums :
        GenerateTrack(st, key, b, measures, include_drums)

SpecEngine == InitEngine /\ [][NextEngine]_vars

-----------------------------------------------------------------------------
(* AudioRenderer.render.  A file is "absent", or holds "midi", "wav" or the *)
(* "partial" output of a process that failed.                              *)

\* os.path.exists that answers True for every path
path_exists_always(files, path) == TRUE

\* os.path.exists(path)
path_exists(files, path) == files[path] # "absent"

\* how the fluidsynth process can end: exit status 0 with the output written,
\* a non-zero status with the output file untouched or partly written, or the
\* program not found (subprocess.run raises before any process exists)
ProcessEnds == {"ok", "failed", "failed_partial", "no_program"}

\* the disk after 'fluidsynth -ni -F output_wav_path -r 44100 soundfont midi_path':
\* the process reads midi_path and writes output_wav_path
fluidsynth(files, midi_path, output_wav_path, end) ==
    IF end = "ok" THEN [files EXCEPT ![output_wav_path] = "wav"]
    ELSE IF end = "failed_partial" THEN [files EXCEPT ![output_wav_path] = "partial"]
    ELSE files

\* what render raises or returns for a process end
render_outcome(end) ==
    IF end = "ok" THEN "returned"
    ELSE IF end = "no_program" THEN "FileNotFoundError"
    ELSE "CalledProcessError"

\* mid.save(output_path): a MIDI file written at path
SaveMidi(path) ==
    /\ pc = "new"
    /\ renderer.files[path] # "midi"
    /\ renderer' = [renderer EXCEPT !.files[path] = "midi", !.outcome = "none"]
    /\ UNCHANGED <<pc, tape, pos, init_args, key_root, mode, scale, bpm, swing, style,
                   swing_amount, prog, mid, evlog, call, gen_args, prev, engine, video, batch>>

\* AudioRenderer.render(midi_path, output_wav_path), the process ending as 'end'
Render(midi_path, output_wav_path, end) ==
    /\ pc = "new"
    /\ Len(renderer.log) < MaxRenders
    /\ IF ~path_exists(renderer.files, midi_path)
       THEN renderer' = [renderer EXCEPT
                !.outcome = "FileNotFoundError", !.started = FALSE,
                !.midi_path = midi_path, !.out_path = output_wav_path,
                !.before = renderer.files,
                !.log = Append(@, <<midi_path, "FileNotFoundError">>)]
       ELSE renderer' = [renderer EXCEPT
                !.files = fluidsynth(@, midi_path, output_wav_path, end),
                !.outcome = render_outcome(end), !.started = (end # "no_program"),
                !.midi_path = midi_path, !.out_path = output_wav_path,
                !.before = renderer.files,
                !.log = Append(@, <<midi_path, render_outcome(end)>>)]
    /\ UNCHANGED <<pc, tape, pos, init_args, key_root, mode, scale, bpm, swing, style,
                   swing_amount, prog, mid, evlog, call, gen_args, prev, engine, video, batch>>

\* the renderer draws nothing from the random source
InitRender == Init /\ \A i \in 1..TapeLen : tape[i] = 0

NextRender ==
    \/ \E path \in {"a.mid", "b.mid"} : SaveMidi(path)
    \/ \E midi_path \in Paths, output_wav_path \in Paths, end \in ProcessEnds :
           Render(midi_path, output_wav_path, end)

SpecRender == InitRender /\ [][NextRender]_vars

-----------------------------------------------------------------------------
(* AppVideoMaker (renderizador_video.py): the click handlers run on the    *)
(* main thread, executar_render and executar_concat on threads of their    *)
(* own.  A file is "absent", "partial" (being written, or left by a        *)
(* failed write) or "complete".                                            *)

\* every variable but video
NotVideo == <<pc, tape, pos, init_args, key_root, mode, scale, bpm, swing, style,
              swing_amount, prog, mid, evlog, call, gen_args, prev, engine, renderer,
              batch>>

\* sel_bg: the file dialog returns a path, or '' when it is cancelled
SelBg(chosen) ==
    /\ video' = [video EXCEPT !.bg_path = chosen, !.call = [op |-> "sel_bg"]]
    /\ UNCHANGED NotVideo

\* sel_audio
SelAudio(chosen) ==
    /\ video' = [video EXCEPT !.audio_path = chosen, !.call = [op |-> "sel_audio"]]
    /\ UNCHANGED NotVideo

\* start_render: a warning when an asset is missing, else a new render thread
StartRender ==
    /\ IF ~video.bg_path \/ ~video.audio_path
       THEN video' = [video EXCEPT !.call = [op |-> "start_render", outcome |-> "warning"]]
       ELSE \E t \in 1..MaxThreads :
                /\ video.render[t] = "unused"
                /\ \A u \in 1..(t - 1) : video.render[u] # "unused"
                /\ video' = [video EXCEPT
                       !.render[t] = "composing",
                       !.call = [op |-> "start_render", outcome |-> "started"]]
    /\ UNCHANGED NotVideo

\* executar_render up to 'self.last_video = ...': the clips are loaded and composed;
\* an exception there ends the thread with the error box, last_video not assigned
ComposeVideo(t, ok) ==
    /\ video.render[t] = "composing"
    /\ video' = IF ok
                THEN [video EXCEPT !.last_video = t, !.render[t] = "writing"]
                ELSE [video EXCEPT !.render[t] = "failed"]
    /\ UNCHANGED NotVideo

\* final.write_videofile(...) has opened its output file
WriteVideoBegin(t) ==
    /\ video.render[t] = "writing"
    /\ video' = [video EXCEPT !.files[t] = "partial", !.render[t] = "encoding"]
    /\ UNCHANGED NotVideo

\* write_videofile returns, or raises and leaves what it wrote
WriteVideoEnd(t, ok) ==
    /\ video.render[t] = "encoding"
    /\ video' = IF ok
                THEN [video EXCEPT !.files[t] = "complete", !.render[t] = "done"]
                ELSE [video EXCEPT !.render[t] = "failed"]
    /\ UNCHANGED NotVideo

\* start_concat: 'self.last_video' is read first, and raises AttributeError when no
\* render thread has assigned it; then the warning when the file does not exist,
\* else a new concatenation thread
StartConcat ==
    /\ video.concats < MaxThreads
    /\ LET rendered == \E t \in 1..MaxThreads : video.render[t] = "done"
       IN  IF video.last_video = 0
           THEN video' = [video EXCEPT
                    !.call = [op |-> "start_concat", outcome |-> "AttributeError",
                              rendered |-> rendered]]
           ELSE IF video.files[video.last_video] = "absent"
           THEN video' = [video EXCEPT
                    !.call = [op |-> "start_concat", outcome |-> "warning",
                              rendered |-> rendered]]
           ELSE video' = [video EXCEPT
                    !.concats = @ + 1, !.running = @ + 1,
                    !.call = [op |-> "start_concat", outcome |-> "started",
                              rendered |-> rendered]]
    /\ UNCHANGED NotVideo

\* executar_concat, to its success or error box
ExecutarConcat ==
    /\ video.running > 0
    /\ video' = [video EXCEPT !.running = @ - 1]
    /\ UNCHANGED NotVideo

\* the window draws nothing from the random source
InitVideo == Init /\ \A i \in 1..TapeLen : tape[i] = 0

NextVideo ==
    \/ \E chosen \in BOOLEAN : SelBg(chosen)
    \/ \E chosen \in BOOLEAN : SelAudio(chosen)
    \/ StartRender
    \/ \E t \in 1..MaxThreads, ok \in BOOLEAN : ComposeVideo(t, ok)
    \/ \E t \in 1..MaxThreads : WriteVideoBegin(t)
    \/ \E t \in 1..MaxThreads, ok \in BOOLEAN : WriteVideoEnd(t, ok)
    \/ StartConcat
    \/ ExecutarConcat

SpecVideo == InitVideo /\ [][NextVideo]_vars

-----------------------------------------------------------------------------
(* The batch audio tool (feelings_translator.py): iniciar_geracao runs on  *)
(* the main thread when the button is clicked, compor_musica on a thread   *)
(* of its own.  A disabled button does not call its command.               *)

\* every variable but batch
NotBatch == <<pc, tape, pos, init_args, key_root, mode, scale, bpm, swing, style,
              swing_amount, prog, mid, evlog, call, gen_args, prev, engine, renderer,
              video>>

\* the worker threads that have been started and have not ended
Running(b) == {w \in 1..MaxThreads : b.worker[w] \in {"started", "loading", "loop"}}

\* a click on the button: iniciar_geracao.  valid: the two numbers parse and the
\* description is not blank; quantidade: the number of tracks asked for
IniciarGeracao(valid, quantidade) ==
    /\ batch.button = "normal"
    /\ IF ~valid
       THEN batch' = [batch EXCEPT !.call = [op |-> "iniciar_geracao",
                                             outcome |-> "warning"]]
       ELSE \E w \in 1..MaxThreads :
                /\ batch.worker[w] = "unused"
                /\ \A u \in 1..(w - 1) : batch.worker[u] # "unused"
                /\ batch' = [batch EXCEPT
                       !.worker[w] = "started", !.left[w] = quantidade,
                       !.call = [op |-> "iniciar_geracao", outcome |-> "started"]]
    /\ UNCHANGED NotBatch

\* compor_musica, its first two statements: the status text, then
\* botao_gerar.config(state="disabled")
DisableButton(w) ==
    /\ batch.worker[w] = "started"
    /\ batch' = [batch EXCEPT !.button = "disabled", !.worker[w] = "loading"]
    /\ UNCHANGED NotBatch

\* the model is loaded; an exception goes to the error box and the finally clause
LoadModel(w, ok) ==
    /\ batch.worker[w] = "loading"
    /\ batch' = IF ok
                THEN [batch EXCEPT !.worker[w] = "loop"]
                ELSE [batch EXCEPT !.worker[w] = "failed", !.button = "normal"]
    /\ UNCHANGED NotBatch

\* one pass of 'for i in range(quantidade)': a track generated and written, or an
\* exception that goes to the error box and the finally clause
RenderTrack(w, ok) ==
    /\ batch.worker[w] = "loop"
    /\ batch.left[w] > 0
    /\ batch' = IF ok
                THEN [batch EXCEPT !.left[w] = @ - 1, !.written[w] = @ + 1]
                ELSE [batch EXCEPT !.worker[w] = "failed", !.button = "normal"]
    /\ UNCHANGED NotBatch

\* the loop has ended: the success box, then finally botao_gerar.config(state="normal")
FinishBatch(w) ==
    /\ batch.worker[w] = "loop"
    /\ batch.left[w] <= 0
    /\ batch' = [batch EXCEPT !.worker[w] = "done", !.button = "normal"]
    /\ UNCHANGED NotBatch

\* the tool draws nothing from the random source
InitBatch == Init /\ \A i \in 1..TapeLen : tape[i] = 0

NextBatch ==
    \/ \E valid \in BOOLEAN, quantidade \in 0..2 : IniciarGeracao(valid, quantidade)
    \/ \E w \in 1..MaxThreads : DisableButton(w)
    \/ \E w \in 1..MaxThreads, ok \in BOOLEAN : LoadModel(w, ok)
    \/ \E w \in 1..MaxThreads, ok \in BOOLEAN : RenderTrack(w, ok)
    \/ \E w \in 1..MaxThreads : FinishBatch(w)

SpecBatch == InitBatch /\ [][NextBatch]_vars

-----------------------------------------------------------------------------
(* Properties of the music theory model and the humanization helpers,      *)
(* checked under SpecTheory                                                *)

\* C4: _get_note(degree, octave) is
\* root + scale[(degree-1) mod n] + 12*(octave + floor((degree-1)/n)), n the scale
\* length, so the degree one scale length higher is exactly 12 semitones up.
C4_GetNoteFormula ==
    call.op = "get_note" =>
        LET n == Len(scale)
            d == call.degree
            wraps == CHOOSE q \in 0..MaxDegree : q * n <= d - 1 /\ d - 1 < (q + 1) * n
        IN  /\ call.result = key_root + scale[d - wraps * n] + 12 * (call.octave + wraps)
            /\ get_note(key_root, scale, d + n, call.octave) = call.result + 12

\* C4 witness: degree n+1 was asked for and is degree 1 one octave up
C4_Witness ==
    /\ call.op = "get_note"
    /\ call.degree = Len(scale) + 1
    /\ call.result = key_root + scale[1] + 12 * (call.octave + 1)

\* C5: every scale has 5 to 7 offsets, and _get_note does not decrease when the
\* degree grows at a fixed octave, the wrap to the next octave included.
C5_ScaleSizeAndMonotone ==
    /\ \A m \in DOMAIN SCALES : Len(SCALES[m]) \in 5..7
    /\ pc = "midi" => Len(scale) \in 5..7
    /\ call.op = "get_note" =>
           \A d \in 1..call.degree :
               get_note(key_root, scale, d, call.octave) <= call.result

\* C5 witness: the call just past the scale's last degree, above the last degree
C5_Witness ==
    /\ call.op = "get_note"
    /\ call.degree = Len(scale) + 1
    /\ get_note(key_root, scale, Len(scale), call.octave) < call.result

\* C6: _parse_key returns the table's pitch class for every name of its key table,
\* the flat spellings included, and the default 9 only for a name that is not in it.
C6_ParseKeyTable ==
    call.op = "parse_key" =>
        /\ call.key \in DOMAIN key_map => call.result = key_map[call.key]
        /\ call.result = DefaultKeyRoot =>
               (call.key \notin DOMAIN key_map \/ key_map[call.key] = DefaultKeyRoot)

\* C7: the constructor keeps a mode of the scale table as it is and replaces any
\* other by 'minor'; the scale is the resolved mode's interval table.
C7_ModeResolves ==
    pc = "midi" =>
        /\ mode \in DOMAIN SCALES
        /\ scale = SCALES[mode]
        /\ init_args.mode \in DOMAIN SCALES => mode = init_args.mode
        /\ init_args.mode \notin DOMAIN SCALES => mode = "minor"

\* C7 witness: constructed with 'major', which the scale table lacks
C7_Witness ==
    /\ pc = "midi"
    /\ init_args.mode = "major"
    /\ mode = "minor"
    /\ scale = SCALES.minor

\* C9: the humanized velocity is in [30, 110] for LofiMidiGenerator and in
\* [20, 127] for DrumGenerator, whatever the base velocity and the spread.
C9_VelocityClamped ==
    /\ call.op = "humanize_velocity" => call.result \in 30..110
    /\ call.op = "drum_humanize_velocity" => call.result \in 20..127

\* C9 witness: the largest spread pushed a base velocity past the ceiling
C9_Witness ==
    /\ call.op = "humanize_velocity"
    /\ call.spread = 1000
    /\ call.base + RandInt(-call.spread, call.spread, pos - 1) > 127
    /\ call.result = 110

\* C10: for an odd subdivision the swing offset is 0 when swing_amount = 0.5 and
\* strictly positive when swing_amount > 0.5.
C10_SwingOffset ==
    (call.op = "apply_swing" /\ call.position % 2 = 1) =>
        /\ swing_amount = Half => call.result = 0
        /\ swing_amount > Half => call.result > 0

\* C10 witness: an off-beat of a swung style got a positive offset
C10_Witness ==
    /\ call.op = "apply_swing"
    /\ call.position % 2 = 1
    /\ swing_amount > Half
    /\ call.result > 0

-----------------------------------------------------------------------------
(* Properties of the generated tracks, checked under Spec *)

Saved == pc \in {"saved", "drums_saved"}

\* the note messages of a track (its header left out)
IsNote(msg) == msg.type \in {"note_on", "note_off"}

\* the absolute tick of the k-th message of a track: the sum of the deltas up to it
RECURSIVE AbsTick(_, _)
AbsTick(msgs, k) == IF k = 0 THEN 0 ELSE AbsTick(msgs, k - 1) + msgs[k].time

NoteIndexes(msgs) == {k \in 1..Len(msgs) : IsNote(msgs[k])}

\* note-ons of pitch n at tick t or later, and note-offs of pitch n after tick t
OnsFrom(msgs, n, t) ==
    {k \in NoteIndexes(msgs) :
        msgs[k].type = "note_on" /\ msgs[k].note = n /\ AbsTick(msgs, k) >= t}

OffsAfter(msgs, n, t) ==
    {k \in NoteIndexes(msgs) :
        msgs[k].type = "note_off" /\ msgs[k].note = n /\ AbsTick(msgs, k) > t}

\* every note-on can be given a note-off of its own, of its pitch, at a later tick
AllNotesClosed(msgs) ==
    \A k \in NoteIndexes(msgs) :
        msgs[k].type = "note_on" =>
            LET t == AbsTick(msgs, k)
            IN  Cardinality(OffsAfter(msgs, msgs[k].note, t))
                    >= Cardinality(OnsFrom(msgs, msgs[k].note, t))

\* C1: in every generated track each note-on has a matching note-off of the same
\* pitch at a strictly later absolute tick.
C1_NoteOffAfterNoteOn ==
    Saved => \A i \in 1..Len(mid) : AllNotesClosed(mid[i])

\* C1 witness: a track that sounds one pitch twice, the first note-on clamped to tick 0
C1_Witness ==
    /\ Saved
    /\ \E i \in 1..Len(mid) :
           \E k \in NoteIndexes(mid[i]) :
               /\ mid[i][k].type = "note_on"
               /\ AbsTick(mid[i], k) = 0
               /\ Cardinality(OnsFrom(mid[i], mid[i][k].note, 0)) >= 2

NonDecreasing(sorted) ==
    \A a, b \in 1..Len(sorted) : a < b => sorted[a].tick <= sorted[b].tick

\* the events of one tick, in the order the list holds them
RECURSIVE AtTick(_, _)
AtTick(events, t) ==
    IF events = <<>> THEN <<>>
    ELSE IF Head(events).tick = t THEN <<Head(events)>> \o AtTick(Tail(events), t)
    ELSE AtTick(Tail(events), t)

Ticks(events) == {events[k].tick : k \in 1..Len(events)}

\* events that share a tick are in the order the generator appended them
InsertionOrderKept(raw, sorted) ==
    /\ Len(raw) = Len(sorted)
    /\ \A t \in Ticks(raw) \cup Ticks(sorted) : AtTick(raw, t) = AtTick(sorted, t)

OnBeforeOff(sorted) ==
    \A a, b \in 1..Len(sorted) :
        (sorted[a].tick = sorted[b].tick /\ sorted[a].type = "on" /\ sorted[b].type = "off")
            => a < b

OffBeforeOn(sorted) ==
    \A a, b \in 1..Len(sorted) :
        (sorted[a].tick = sorted[b].tick /\ sorted[a].type = "off" /\ sorted[b].type = "on")
            => a < b

\* C2 as claimed: events in non-decreasing tick order, at one tick every note-on
\* before every note-off, insertion order otherwise kept.
C2_OnBeforeOffAtSameTick ==
    Saved => \A i \in 1..Len(evlog) :
                 /\ NonDecreasing(evlog[i].sorted)
                 /\ OnBeforeOff(evlog[i].sorted)
                 /\ InsertionOrderKept(evlog[i].raw, evlog[i].sorted)

\* C2 amended: events are in non-decreasing tick order and events of one tick keep
\* the order the generator appended them in; in the LofiMidiGenerator tracks this
\* puts every note-off of a tick before every note-on of that tick.
C2_TickOrderOffFirst ==
    Saved => \A i \in 1..Len(evlog) :
                 /\ NonDecreasing(evlog[i].sorted)
                 /\ InsertionOrderKept(evlog[i].raw, evlog[i].sorted)
                 /\ evlog[i].role # "drums" => OffBeforeOn(evlog[i].sorted)

\* C2 witness: a pad track where the chord of one measure ends on the tick the
\* chord of the next measure starts
C2_Witness ==
    /\ pc = "saved"
    /\ \E i \in 1..Len(evlog) :
           /\ evlog[i].role = "pad"
           /\ \E a, b \in 1..Len(evlog[i].sorted) :
                  /\ a < b
                  /\ evlog[i].sorted[a].tick = evlog[i].sorted[b].tick
                  /\ evlog[i].sorted[a].type = "off"
                  /\ evlog[i].sorted[b].type = "on"

\* C3: the deltas written to a track decode to the absolute ticks of its sorted
\* events: no delta is negative, the first is the first event's own tick, and the
\* sum of the deltas up to an event is that event's tick.
C3_DeltasDecode ==
    Saved => \A i \in 1..Len(mid) :
                 LET msgs == mid[i]
                     sorted == evlog[i].sorted
                 IN  /\ Cardinality(NoteIndexes(msgs)) = Len(sorted)
                     /\ \A k \in NoteIndexes(msgs) :
                            /\ msgs[k].time >= 0
                            /\ AbsTick(msgs, k) = sorted[k - 1].tick
                            /\ msgs[k].note = sorted[k - 1].note
                     /\ sorted # <<>> => msgs[2].time = sorted[1].tick

\* C3 witness: a track whose first event is not at tick 0 and that has a later
\* event with a delta smaller than its tick
C3_Witness ==
    /\ Saved
    /\ \E i \in 1..Len(mid) :
           /\ Len(evlog[i].sorted) >= 2
           /\ mid[i][2].time > 0
           /\ \E k \in NoteIndexes(mid[i]) :
                  /\ mid[i][k].time > 0
                  /\ mid[i][k].time < evlog[i].sorted[k - 1].tick

\* the members of a catalog group
Members(group) == {group[k] : k \in 1..Len(group)}

\* C8: the progression generate() takes is a member of the group its mode fixes:
\* ORIENTAL for 'pentatonic_minor', NORDESTE for 'lydian_b7', MELANCHOLIC otherwise.
C8_ProgressionGroup ==
    pc = "saved" =>
        /\ mode = "pentatonic_minor" => prog \in Members(ORIENTAL_PROGRESSIONS)
        /\ mode = "lydian_b7" => prog \in Members(NORDESTE_PROGRESSIONS)
        /\ mode \notin {"pentatonic_minor", "lydian_b7"}
               => prog \in Members(MELANCHOLIC_PROGRESSIONS)

\* C8 witness: a 'lydian_b7' generator took the last NORDESTE progression
C8_Witness ==
    /\ pc = "saved"
    /\ mode = "lydian_b7"
    /\ prog = NORDESTE_PROGRESSIONS[2]

\* the events list of the harmony ('piano') track, as the generator appended it
HarmonyTracks == {i \in 1..Len(evlog) : evlog[i].role = "piano"}

\* C12: for a measure count M >= 1 every event of the harmony track, note-on or
\* note-off, has its absolute tick in [0, M * 4 * ticks_per_beat).
C12_HarmonyInRange ==
    (pc = "saved" /\ gen_args.measures >= 1) =>
        \A i \in HarmonyTracks :
            \A k \in 1..Len(evlog[i].sorted) :
                /\ evlog[i].sorted[k].tick >= 0
                /\ evlog[i].sorted[k].tick < gen_args.measures * 4 * TicksPerBeat
                /\ AbsTick(mid[i], k + 1) = evlog[i].sorted[k].tick

\* C12 witness: a harmony track of two or more measures with a note-on pulled to
\* tick 0 and its last note-off 60 ticks before the end of the last measure
C12_Witness ==
    /\ pc = "saved"
    /\ gen_args.measures >= 2
    /\ \E i \in HarmonyTracks :
           /\ \E k \in 1..Len(evlog[i].sorted) :
                  evlog[i].sorted[k].tick = 0 /\ evlog[i].sorted[k].type = "on"
           /\ \E k \in 1..Len(evlog[i].sorted) :
                  /\ evlog[i].sorted[k].tick = gen_args.measures * 4 * TicksPerBeat - 60
                  /\ evlog[i].sorted[k].type = "off"

\* the hi-hat onsets of the drum track, in the order the generator appended them:
\* eight per measure for a style that is not straight
IsHihatOn(e) == e.type = "on" /\ e.note \in {CLOSED_HH, OPEN_HH}

HihatOnsets == SelectSeq(evlog[1].raw, IsHihatOn)

SwungDrums == pc = "drums_saved" /\ swing_amount > Half

\* the off-beat onsets: the odd subdivisions 1, 3, 5, 7 of a measure
OffBeats == {h \in 1..Len(HihatOnsets) : (h - 1) % 2 = 1}

\* every off-beat hi-hat onset lies strictly between the on-beat onsets around it
OffBeatsBetweenOnBeats ==
    /\ Len(HihatOnsets) = 8 * Max(0, gen_args.measures)
    /\ \A h \in OffBeats :
           /\ HihatOnsets[h - 1].tick < HihatOnsets[h].tick
           /\ h < Len(HihatOnsets) => HihatOnsets[h].tick < HihatOnsets[h + 1].tick

\* C13 as claimed: in a swung style each off-beat hi-hat onset is strictly later
\* than the on-beat onset before it and strictly earlier than the next one, its
\* offset from the on-beat onset before it being at most one beat.
C13_OffBeatWithinOneBeat ==
    SwungDrums =>
        /\ OffBeatsBetweenOnBeats
        /\ \A h \in OffBeats :
               HihatOnsets[h].tick - HihatOnsets[h - 1].tick <= TicksPerBeat

\* C13 amended: in a swung style each off-beat hi-hat onset is strictly later than
\* the on-beat onset before it and strictly earlier than the next on-beat onset;
\* its offset from the on-beat onset before it is positive and at most one beat
\* and one tick.
C13_OffBeatBetweenOnBeats ==
    SwungDrums =>
        /\ OffBeatsBetweenOnBeats
        /\ \A h \in OffBeats :
               HihatOnsets[h].tick - HihatOnsets[h - 1].tick \in 1..(TicksPerBeat + 1)

\* C13 witness: the last off-beat of a measure one beat and one tick after the
\* on-beat before it, and before the first onset of the next measure
C13_Witness ==
    /\ SwungDrums
    /\ \E h \in OffBeats :
           /\ HihatOnsets[h].tick - HihatOnsets[h - 1].tick = TicksPerBeat + 1
           /\ h < Len(HihatOnsets)
           /\ HihatOnsets[h].tick < HihatOnsets[h + 1].tick

\* the roles generate_full_ensemble appends a track for
RequestedRoles ==
    LET list == IF gen_args.instruments.given THEN gen_args.instruments.list
                ELSE <<"piano", "bass", "pad", "melody">>
    IN  {k \in 1..Len(EnsembleOrder) : Has(list, EnsembleOrder[k])}

\* C15: with a measure count of zero every track is produced and holds no note-on
\* or note-off: the instrument tracks and the drum track are their one header
\* message, and the composition has its clock track and one track per role.
C15_ZeroMeasuresEmptyTracks ==
    (Saved /\ gen_args.measures = 0) =>
        /\ \A i \in 1..Len(mid) : NoteIndexes(mid[i]) = {}
        /\ pc = "saved" =>
               /\ Len(mid) = 1 + Cardinality(RequestedRoles)
               /\ \A i \in 2..Len(mid) :
                      Len(mid[i]) = 1 /\ mid[i][1].type = "program_change"
        /\ pc = "drums_saved" =>
               mid = << <<[type |-> "track_name", name |-> "Drums", time |-> 0]>> >>

\* C15 witness: generate() with zero measures and the default instruments saved a
\* clock track and four header-only tracks, the harmony track first
C15_Witness ==
    /\ pc = "saved"
    /\ gen_args.measures = 0
    /\ ~gen_args.instruments.given
    /\ Len(mid) = 5
    /\ mid[2] = <<ProgramChange(0, 0)>>

\* C16 as claimed: a negative measure count raises; no composition is returned
\* and no file is written for measures < 0.
C16_NegativeMeasuresRaise ==
    gen_args.measures < 0 => ~Saved

\* the measure a harmony note-off closes: the one that ends 60 ticks after it
ClosedMeasure(off) == (off.tick + 60) \div (4 * TicksPerBeat) - 1

\* C20: in the harmony track every note-off is 60 ticks before the end of its
\* measure, and each note-off of measure m is strictly before every note-on of
\* measure m+1.
C20_ChordsDoNotOverlap ==
    pc = "saved" =>
        \A i \in HarmonyTracks :
            LET raw == evlog[i].raw
                pairs == 1..(Len(raw) \div 2)
            IN  /\ \A a \in pairs :
                       /\ raw[2 * a - 1].type = "on" /\ raw[2 * a].type = "off"
                       /\ (raw[2 * a].tick + 60) % (4 * TicksPerBeat) = 0
                /\ \A a, b \in pairs :
                       ClosedMeasure(raw[2 * b]) = ClosedMeasure(raw[2 * a]) + 1
                           => raw[2 * a].tick < raw[2 * b - 1].tick

\* C20 witness: a chord of the second measure starts 40 ticks early, 20 ticks
\* after the note-offs of the first measure
C20_Witness ==
    /\ pc = "saved"
    /\ \E i \in HarmonyTracks :
           \E a, b \in 1..(Len(evlog[i].raw) \div 2) :
               /\ ClosedMeasure(evlog[i].raw[2 * b]) = ClosedMeasure(evlog[i].raw[2 * a]) + 1
               /\ evlog[i].raw[2 * b - 1].tick = evlog[i].raw[2 * a].tick + 20

-----------------------------------------------------------------------------
(* Properties of LofiEngine.generate_track, checked under SpecEngine *)

\* the call generate_track(style=SLEEP, key='A', bpm=65, measures=4,
\* include_drums=False)
SleepCall ==
    [style |-> "sleep", key |-> Some(<<"A">>), bpm |-> Some(65), measures |-> Some(4),
     include_drums |-> Some(FALSE)]

\* C11: generate_track(style=SLEEP, key='A', bpm=65, measures=4,
\* include_drums=False) returns a saved composition of exactly the tempo track and
\* the harmony and melody tracks, with no drum track, whose set_tempo is 65 bpm.
C11_SleepTrackReturned ==
    (engine.outcome # "none" /\ engine.args = SleepCall) =>
        /\ engine.outcome = "returned"
        /\ engine.saved
        /\ Len(engine.tracks) = 3
        /\ engine.tracks[1][2] = [type |-> "set_tempo", tempo |-> bpm2tempo(65), time |-> 0]

\* C17: for every member of LofiStyle and every key name generate_track ends by
\* returning an output path; it never ends in an exception.
C17_NoExceptionForAnyStyle ==
    engine.outcome \in {"none", "returned"}

\* the key name generate_track splits: the caller's, or the preset's choice
EngineKeySource ==
    IF engine.args.key.given THEN {engine.args.key.value}
    ELSE {STYLE_PRESETS[engine.args.style].key_preferences[k] :
              k \in 1..Len(STYLE_PRESETS[engine.args.style].key_preferences)}

\* key and mode are the split of the name src: a trailing 'm' is taken off and
\* means minor, any other name is kept whole and means major
IsSplitOf(key, md, src) ==
    IF Len(src) > 0 /\ src[Len(src)] = "m"
    THEN key = SubSeq(src, 1, Len(src) - 1) /\ md = "minor"
    ELSE key = src /\ md = "major"

\* bpm, measures and include_drums: the caller's value, else the preset's default
EngineDefaultsKept ==
    LET preset == STYLE_PRESETS[engine.args.style]
    IN  /\ engine.args.bpm.given => engine.bpm = engine.args.bpm.value
        /\ ~engine.args.bpm.given =>
               engine.bpm \in preset.bpm_range[1]..preset.bpm_range[2]
        /\ engine.measures = IF engine.args.measures.given
                             THEN engine.args.measures.value ELSE preset.measures
        /\ engine.include_drums = IF engine.args.include_drums.given
                                  THEN engine.args.include_drums.value
                                  ELSE preset.has_drums
        /\ engine.tracks[1][2].tempo = bpm2tempo(engine.bpm)

\* C18 as claimed: an explicit key, bpm, measures and include_drums are used
\* unchanged; a parameter left unset takes the preset's default, the key being a
\* preset key split into key name and mode.
C18_ExplicitKeyUnchanged ==
    (engine.outcome # "none" /\ engine.resolved) =>
        /\ EngineDefaultsKept
        /\ engine.args.key.given => engine.key = engine.args.key.value
        /\ ~engine.args.key.given =>
               \E src \in EngineKeySource : IsSplitOf(engine.key, engine.mode, src)

\* C18 amended: the parameters generate_track resolves before it builds the
\* generator are the caller's bpm, measures and include_drums unchanged, else the
\* preset's (bpm in the inclusive bpm_range); the key, the caller's as much as
\* the preset's, is split into key name and mode by its trailing 'm'.
C18_ParametersResolved ==
    (engine.outcome # "none" /\ engine.resolved) =>
        /\ EngineDefaultsKept
        /\ \E src \in EngineKeySource : IsSplitOf(engine.key, engine.mode, src)

\* C18 witness: a call with the explicit key 'Am' and nothing else set, which
\* resolved to key 'A', mode 'minor' and the SAD preset's defaults
C18_Witness ==
    /\ engine.outcome # "none"
    /\ engine.resolved
    /\ engine.args.style = "sad"
    /\ engine.args.key = Some(<<"A", "m">>)
    /\ ~engine.args.bpm.given /\ ~engine.args.measures.given
    /\ ~engine.args.include_drums.given
    /\ engine.key = <<"A">> /\ engine.mode = "minor"
    /\ engine.bpm = 80 /\ engine.measures = 16 /\ engine.include_drums

-----------------------------------------------------------------------------
(* Determinism, checked under SpecReplay *)

\* the second run was given the parameters of the first
SameParameters ==
    /\ prev.given
    /\ prev.key = init_args.key /\ prev.mode = init_args.mode
    /\ prev.measures = gen_args.measures /\ prev.instruments = gen_args.instruments

-----------------------------------------------------------------------------
(* Properties of AudioRenderer.render, checked under SpecRender *)

Rendered == renderer.outcome # "none"

\* a missing MIDI file: FileNotFoundError, no process started, the disk untouched
MissingMidiRaisesFirst ==
    renderer.before[renderer.midi_path] = "absent" =>
        /\ renderer.outcome = "FileNotFoundError"
        /\ ~renderer.started
        /\ renderer.files = renderer.before

-----------------------------------------------------------------------------
(* Properties of the bass track, checked under Spec *)

BassTracks == {i \in 1..Len(evlog) : evlog[i].role = "bass"}

\* the notes of a bass track: the generator appends the on event and then the off
\* event of each note, two notes per measure
BassNotes(i) == 1..(Len(evlog[i].raw) \div 2)

BassOn(i, a) == evlog[i].raw[2 * a - 1]

BassOff(i, a) == evlog[i].raw[2 * a]

\* the sounding duration of the a-th note
BassDuration(i, a) == BassOff(i, a).tick - BassOn(i, a).tick

\* the tick the a-th note is placed on before jitter: beat 0 or beat 1.5 of its measure
BassStart(a) ==
    ((a - 1) \div 2) * 4 * TicksPerBeat + (IF a % 2 = 1 THEN 0 ELSE (3 * TicksPerBeat) \div 2)

\* C22 as claimed: every note of the bass track sounds for the same duration, one
\* fixed fraction of a beat, whatever jitter its onset got.
C22_BassDurationFixed ==
    pc = "saved" =>
        \A i \in BassTracks :
            \A a \in BassNotes(i) : BassDuration(i, a) = (8 * TicksPerBeat) \div 10

\* C22 amended: every bass note-off is 0.8 beat after the note's unjittered start
\* tick; the onset alone is jittered (by at most 20 ticks, floored at tick 0), so
\* the duration is between 0.8 beat - 20 and 0.8 beat + 20 ticks.
C22_BassOffFixedFromStart ==
    pc = "saved" =>
        \A i \in BassTracks :
            /\ Len(evlog[i].raw) = 4 * Max(0, gen_args.measures)
            /\ \A a \in BassNotes(i) :
                   /\ BassOn(i, a).type = "on" /\ BassOff(i, a).type = "off"
                   /\ BassOff(i, a).tick = BassStart(a) + (8 * TicksPerBeat) \div 10
                   /\ BassOn(i, a).tick >= Max(0, BassStart(a) - 20)
                   /\ BassOn(i, a).tick <= BassStart(a) + 20
                   /\ BassDuration(i, a) >= (8 * TicksPerBeat) \div 10 - 20
                   /\ BassDuration(i, a) <= (8 * TicksPerBeat) \div 10 + 20

\* C22 witness: one bass track with a note started 20 ticks early and a note
\* started 20 ticks late, 40 ticks apart in duration
C22_Witness ==
    /\ pc = "saved"
    /\ \E i \in BassTracks :
           \E a, b \in BassNotes(i) :
               /\ BassOn(i, a).tick = BassStart(a) - 20
               /\ BassOn(i, b).tick = BassStart(b) + 20
               /\ BassDuration(i, a) = BassDuration(i, b) + 40

-----------------------------------------------------------------------------
(* Properties of the swing of the hi-hat, checked under Spec *)

\* the position 0..7 of the h-th hi-hat onset in its measure, and the tick of the
\* onset counted from the start of its measure
HihatPosition(h) == (h - 1) % 8

HihatTime(h) == HihatOnsets[h].tick - ((h - 1) \div 8) * 4 * TicksPerBeat

\* a time is 'base' humanized by 5%: _humanize_timing moves it by at most int(base * 0.05)
HumanizedFrom(time, base) ==
    /\ time >= base - (base * 5) \div 100
    /\ time <= base + (base * 5) \div 100

\* the offset swing_fraction * ticks_per_subdivision of the odd positions
FractionOffset(position) ==
    IF position % 2 = 1 THEN ((TicksPerBeat \div 2) * swing_amount) \div UDen ELSE 0

\* the offset int(ticks_per_subdivision * (swing_fraction - 0.5) * 2) of the odd
\* positions when the swing fraction is above 0.5
ExcessOffset(position) ==
    IF position % 2 = 1 /\ swing_amount > Half
    THEN ((TicksPerBeat \div 2) * (swing_amount - Half) * 2) \div UDen
    ELSE 0

\* a drum track with the eight-subdivision hi-hat pattern
EighthsDrums == pc = "drums_saved" /\ style \notin StraightStyles

\* C23 as claimed: every odd hi-hat subdivision is moved by swing_fraction *
\* ticks_per_subdivision before it is humanized, every even one by 0.
C23_SwingIsFractionOfSubdivision ==
    EighthsDrums =>
        /\ Len(HihatOnsets) = 8 * Max(0, gen_args.measures)
        /\ \A h \in 1..Len(HihatOnsets) :
               HumanizedFrom(HihatTime(h), HihatPosition(h) * (TicksPerBeat \div 2)
                                           + FractionOffset(HihatPosition(h)))

\* C23 amended: the swing offset is applied to the odd hi-hat subdivisions and only
\* to those; for an odd position and a swing fraction above 0.5 it is
\* int(ticks_per_subdivision * (swing_fraction - 0.5) * 2), else it is 0.
C23_SwingIsExcessOverHalf ==
    EighthsDrums =>
        /\ Len(HihatOnsets) = 8 * Max(0, gen_args.measures)
        /\ \A h \in 1..Len(HihatOnsets) :
               HumanizedFrom(HihatTime(h), HihatPosition(h) * (TicksPerBeat \div 2)
                                           + ExcessOffset(HihatPosition(h)))

\* C23 witness: the first off-beat of a measure sits exactly one subdivision and
\* the offset after the measure start, the on-beat after it exactly on its beat
C23_Witness ==
    /\ EighthsDrums
    /\ swing_amount > Half
    /\ \E h \in 1..Len(HihatOnsets) :
           /\ HihatPosition(h) = 1
           /\ ExcessOffset(1) > 0
           /\ HihatTime(h) = TicksPerBeat \div 2 + ExcessOffset(1)
           /\ HihatTime(h + 1) = TicksPerBeat

-----------------------------------------------------------------------------
(* Properties of the long pieces, checked under SpecLong *)

\* the measure indexes of the piece generate() was called for
MeasureIndexes == 0..(gen_args.measures - 1)

\* the pair of measure m, read off the progression generate() chose
PairOfMeasure(m) == prog[(m % Len(prog)) + 1]

\* the intervals of the chord of measure m, and the pitch of its root in octave 3
IntervalsOf(m) == ChordQuality[PairOfMeasure(m)[2]]

HarmonyRoot(m) ==
    LET degree == PairOfMeasure(m)[1]
    IN  key_root + scale[((degree - 1) % Len(scale)) + 1]
            + (3 + (degree - 1) \div Len(scale)) * 12

\* the note-ons of pitch n the harmony generator put within 40 ticks of the start
\* of measure m, and the note-offs of pitch n 60 ticks before its end
HarmonyOns(events, m, n) ==
    {k \in 1..Len(events) :
        /\ events[k].type = "on" /\ events[k].note = n
        /\ events[k].tick >= m * 4 * TicksPerBeat - 40
        /\ events[k].tick <= m * 4 * TicksPerBeat + 40}

HarmonyOffs(events, m, n) ==
    {k \in 1..Len(events) :
        /\ events[k].type = "off" /\ events[k].note = n
        /\ events[k].tick = (m + 1) * 4 * TicksPerBeat - 60}

\* the number of chord tones of the measures 0..m-1
RECURSIVE ChordTonesUpTo(_)
ChordTonesUpTo(m) == IF m <= 0 THEN 0 ELSE ChordTonesUpTo(m - 1) + Len(IntervalsOf(m - 1))

\* C21: for every measure index m the harmony track holds exactly one note-on and
\* one note-off for each interval of the chord quality of prog[m mod len(prog)],
\* with pitch _get_note(degree, 3) + interval: 2 * (chord tones) events per measure
\* and no other event.
C21_HarmonyCyclesProgression ==
    pc = "saved" =>
        \A i \in HarmonyTracks :
            /\ \A m \in MeasureIndexes :
                   \A a \in 1..Len(IntervalsOf(m)) :
                       LET n == HarmonyRoot(m) + IntervalsOf(m)[a]
                       IN  /\ Cardinality(HarmonyOns(evlog[i].sorted, m, n)) = 1
                           /\ Cardinality(HarmonyOffs(evlog[i].sorted, m, n)) = 1
            /\ Len(evlog[i].sorted) = 2 * ChordTonesUpTo(gen_args.measures)
            /\ Len(mid[i]) = 1 + Len(evlog[i].sorted)

\* C21 witness: a piece one measure longer than its progression, whose fifth
\* measure plays the chord of the first pair again and not the chord of the last
C21_Witness ==
    /\ pc = "saved"
    /\ gen_args.measures = Len(prog) + 1
    /\ PairOfMeasure(Len(prog)) = prog[1]
    /\ prog[1] # prog[Len(prog)]
    /\ \E i \in HarmonyTracks :
           HarmonyOffs(evlog[i].sorted, Len(prog), HarmonyRoot(0)) # {}

-----------------------------------------------------------------------------
(* Properties of the tracks of a piece, checked under SpecEnsemble *)

\* role is in the instruments list generate() was called with; None stands for
\* piano, bass, pad and melody
Requested(role) ==
    IF gen_args.instruments.given
    THEN \E k \in 1..Len(gen_args.instruments.list) : gen_args.instruments.list[k] = role
    ELSE role \in {"piano", "bass", "pad", "melody"}

\* the tracks of the piece that were generated for a role
TracksOf(role) == {i \in 1..Len(evlog) : evlog[i].role = role}

\* C24: the file has the tempo track first and then exactly one track for each of
\* the seven roles that is in the instruments list, none for a role that is not;
\* with instruments=None these are the piano, bass, pad and melody tracks.
C24_OneTrackPerRequestedRole ==
    pc = "saved" =>
        /\ mid[1][1].type = "set_tempo"
        /\ TracksOf("meta") = {1}
        /\ \A role \in Roles :
               Cardinality(TracksOf(role)) = IF Requested(role) THEN 1 ELSE 0
        /\ Len(mid) = 1 + Cardinality({role \in Roles : Requested(role)})
        /\ \A i \in 2..Len(mid) :
               evlog[i].role \in Roles /\ mid[i][1].type = "program_change"
        /\ ~gen_args.instruments.given =>
               [i \in 1..Len(evlog) |-> evlog[i].role]
                   = <<"meta", "piano", "bass", "pad", "melody">>

\* C24 witness: a list that names the piano twice, after the melody, gave the tempo
\* track, one piano track and one melody track
C24_Witness ==
    /\ pc = "saved"
    /\ gen_args.instruments = Instruments(<<"melody", "piano", "piano">>)
    /\ [i \in 1..Len(evlog) |-> evlog[i].role] = <<"meta", "piano", "melody">>
    /\ Len(mid[2]) > 1

-----------------------------------------------------------------------------
(* Properties of the ornamental tracks, checked under Spec *)

OrnamentalRoles == {"koto", "accordion", "shakuhachi"}

\* the note onsets a track has in measure m
OnsetsInMeasure(i, m) ==
    {k \in 1..Len(evlog[i].sorted) :
        /\ evlog[i].sorted[k].type = "on"
        /\ evlog[i].sorted[k].tick >= m * 4 * TicksPerBeat
        /\ evlog[i].sorted[k].tick < (m + 1) * 4 * TicksPerBeat}

\* the largest number of onsets the melody branch emits in a measure: one for each
\* of its three beat offsets
MelodyOnsetsPerMeasure == Len(<<1, 4, 7>>)

\* C25: in every measure each ornamental track (koto, accordion, shakuhachi) has
\* fewer note onsets than the three the melody generator can emit.
C25_OrnamentsSparserThanMelody ==
    pc = "saved" =>
        \A i \in 1..Len(evlog) :
            evlog[i].role \in OrnamentalRoles =>
                \A m \in 0..(gen_args.measures - 1) :
                    Cardinality(OnsetsInMeasure(i, m)) < MelodyOnsetsPerMeasure

-----------------------------------------------------------------------------
(* Properties of the pitches, checked under SpecCatalog *)

\* the pitches of the note-on and note-off messages of the piece
Pitches == UNION {{mid[i][k].note : k \in NoteIndexes(mid[i])} : i \in 1..Len(mid)}

\* C26: for every key root, mode, catalog progression and random outcome, every
\* note-on and note-off of every generator has its pitch in 0..127.
C26_PitchesInMidiRange ==
    pc = "ensemble" => \A n \in Pitches : n >= 0 /\ n <= 127

\* C26 witness: in the key of B and the pentatonic mode the shakuhachi plays degree 7
\* in octave 6, pitch 98, over a bass in octave 2
C26_Witness ==
    /\ pc = "ensemble"
    /\ key_root = 11
    /\ mode = "pentatonic_minor"
    /\ 98 \in Pitches
    /\ \A n \in Pitches : n >= 35 /\ n <= 98
    /\ \E i \in 1..Len(evlog) : evlog[i].role = "koto" /\ Len(evlog[i].sorted) > 0

-----------------------------------------------------------------------------
(* Properties of the notes of one pitch, checked under Spec *)

\* the note messages of pitch n that come before the k-th message of a track
EarlierOfPitch(msgs, k) ==
    {j \in NoteIndexes(msgs) : j < k /\ msgs[j].note = msgs[k].note}

\* the note-ons and note-offs of every pitch alternate, a note-on first
Alternates(msgs) ==
    \A k \in NoteIndexes(msgs) :
        msgs[k].type = IF Cardinality(EarlierOfPitch(msgs, k)) % 2 = 0
                       THEN "note_on" ELSE "note_off"

\* C27: within any one encoded track the note-on and note-off messages of one pitch
\* strictly alternate, starting with a note-on: no note-on comes while an earlier
\* note of its pitch is still sounding.
C27_NotesOfOnePitchAlternate ==
    Saved => \A i \in 1..Len(mid) : Alternates(mid[i])

-----------------------------------------------------------------------------
(* Properties of the channels, checked under Spec *)

\* the channels the messages of a track are sent on
Channels(msgs) ==
    {msgs[k].channel : k \in {j \in 1..Len(msgs) : "channel" \in DOMAIN msgs[j]}}

\* C28: every instrument role writes to a channel of its own: in a piece no two
\* tracks share a channel, and no track of a melodic generator uses the percussion
\* channel, on which the drum generator writes all its notes.
C28_OneChannelPerRole ==
    /\ pc = "saved" =>
           /\ \A i, j \in 1..Len(mid) : i # j => Channels(mid[i]) \cap Channels(mid[j]) = {}
           /\ \A i \in 1..Len(mid) : DrumChannel \notin Channels(mid[i])
    /\ pc = "drums_saved" => Channels(mid[1]) \subseteq {DrumChannel}

-----------------------------------------------------------------------------
(* Properties of the video maker, checked under SpecVideo *)

\* C29: start_concat invoked before any render has produced a video file (as the
\* first action, or after a render that failed) shows the 'generate the base block
\* first' warning and starts no concatenation thread, without raising an error.
C29_ConcatNeedsRenderedVideo ==
    (video.call.op = "start_concat" /\ ~video.call.rendered) =>
        video.call.outcome = "warning"

-----------------------------------------------------------------------------
(* Properties of the batch audio tool, checked under SpecBatch *)

\* C30: at most one compor_musica thread runs at a time: a click while a batch is
\* in progress starts no second worker, and the button is enabled again once the
\* running batch has ended, in success or in failure.
C30_OneWorkerAtATime ==
    /\ Cardinality(Running(batch)) <= 1
    /\ Running(batch) = {} => batch.button = "normal"

====
